---- MODULE Spec2Model ----
(***************************************************************************)
(* A model of the Drive -> Whisper -> Docs transcription endpoint           *)
(* (pages/api/process-drive.js, current version, with lib/google.js).      *)
(*                                                                         *)
(* The handler is an async function: the code between two awaits runs      *)
(* without interruption, so every action below is "one awaited remote call *)
(* returns (or throws) and the handler runs on to its next await or to its *)
(* response".  A remote call takes effect on the store when it returns; a  *)
(* call that throws leaves the store as it was.                            *)
(*                                                                         *)
(* Strings the code searches with String.includes are sequences of tokens: *)
(* a token is a keyword the code looks for or a piece of filler text, and  *)
(* concatenation is \o.                                                    *)
(***************************************************************************)
EXTENDS Integers, Sequences, FiniteSets, TLC

(***************************************************************************)
(* Bounds of the model.                                                    *)
(***************************************************************************)
MaxFiles == 2       \* files in the Drive store of a serial run
MaxFaults == 2      \* remote calls that may fail in one behaviour (serial)
NumRuns == 2        \* requests served one after the other
RaceFiles == 1      \* files in the Drive store of a racing run
RaceFaults == 2     \* remote calls that may fail in one behaviour (racing)
FolderFiles == 2    \* files in the store when the folder configuration varies
FolderFaults == 2   \* remote calls that may fail when it varies
SoloFiles == 2      \* files in the Drive store of a single request
SoloFaults == 2     \* remote calls that may fail during a single request
BulkFiles == 101    \* files in the input folder of a bulk run: PageSize + 1
PlacementFaults == 3 \* remote calls that may fail while one document is placed
TagFiles == 2        \* files in the store of the tagging variant
VariantFiles == 1    \* files in the store when either variant serves the request
VariantFaults == 2   \* remote calls that may fail or answer unusually then
CredentialRuns == 2   \* requests in a row on one configuration of the credentials
CredentialFaults == 2 \* remote calls that may fail in them
OlderFiles == 2      \* files in the store of a request to an older variant
OlderFaults == 1     \* remote calls that may fail or answer unusually then
TagFaults == 1       \* remote calls that may fail or answer unusually in one behaviour

(***************************************************************************)
(* Program constants.                                                      *)
(***************************************************************************)
PageSize == 100     \* pageSize of every drive.files.list of listAudioFiles

InputFolder == "In"
OutputFolder == "Out"
OtherFolder == "Elsewhere"
Root == "root"      \* where docs.documents.create puts a new document

VARIABLES
    env,            \* process.env: the configuration of the process
    cachedAuth,     \* lib/google.js: let cachedAuth
    drive,          \* the Drive store: file id -> name, mimeType, parents
    docs,           \* the documents of the store, in order of creation
    h,              \* one frame per request: the handler's locals and position
    faults,         \* remote calls that may still fail in this behaviour
    overlap         \* whether the host runtime serves requests concurrently

vars == <<env, cachedAuth, drive, docs, h, faults, overlap>>

(***************************************************************************)
(* Strings.                                                                *)
(***************************************************************************)
includes(s, kw) == \E k \in DOMAIN s : s[k] = kw

\* file.name.replace(/\.[^/.]+$/, ""): drop the last extension, if any.
IsExtension(tok) == tok \in {".mp3", ".wav", ".m4a", ".mp4", ".ogg", ".flac", ".txt"}

stripExtension(name) ==
    IF Len(name) > 0 /\ IsExtension(name[Len(name)])
    THEN SubSeq(name, 1, Len(name) - 1)
    ELSE name

docTitle(name) == stripExtension(name) \o <<" - Transcript">>

\* A viewer URL that leaves the document id out.
docUrlWithoutId(docId) == <<"https://docs.google.com/document/d/">>

docUrl(docId) == <<"https://docs.google.com/document/d/", ToString(docId)>>

(***************************************************************************)
(* Errors: what a rejected promise carries.  code is the googleapis error  *)
(* code, status the OpenAI SDK's HTTP status; 0 stands for undefined.      *)
(***************************************************************************)
NoError == [code |-> 0, status |-> 0, message |-> <<>>]

Error(msg) == [code |-> 0, status |-> 0, message |-> msg]

\* Errors a Drive or Docs call can throw.
DriveErrors == {
    [code |-> 403, status |-> 403,
     message |-> <<"The user does not have sufficient ", "permission", "s for this ", "file", ".">>],
    [code |-> 404, status |-> 404, message |-> <<"File not found.">>] }

\* Errors openai.audio.transcriptions.create can throw.
OpenAIErrors == {
    [code |-> 0, status |-> 401,
     message |-> <<"Incorrect ", "API key", " provided.">>],
    [code |-> 0, status |-> 400,
     message |-> <<"Invalid ", "file", " ", "format", ".">>],
    [code |-> 0, status |-> 429,
     message |-> <<"Rate limit reached for whisper-1">>] }

(***************************************************************************)
(* The catch blocks of the helpers: which error leaves the helper.         *)
(***************************************************************************)

\* downloadFile, catch (error)
downloadFileCatch(error, fileId) ==
    IF error.code = 403 \/ includes(error.message, "permission")
    THEN Error(<<"Permission", " denied ", "download", "ing ", "file",
                 ". File ID: ", ToString(fileId),
                 " Make sure the ", "file", " is in a shared folder.">>)
    ELSE error

\* transcribeAudio's catch as it was before the API-key branch was added: only
\* messages that hold "file" are rewritten.
transcribeAudioCatchFileOnly(error, fileName) ==
    IF includes(error.message, "file")
    THEN Error(<<"Failed to ", "transcribe", " audio ", "file", " ">> \o fileName
               \o <<": ">> \o error.message
               \o <<". Ensure the ", "file", " is a valid audio ", "format", ".">>)
    ELSE error

\* A transcribeAudio without its catch block: the service's error as it came.
transcribeAudioRethrows(error, fileName) == error

\* transcribeAudio, catch (error)
transcribeAudioCatch(error, fileName) ==
    IF error.status = 401 \/ includes(error.message, "API key")
    THEN Error(<<"OpenAI", " ", "API key", " error: ">> \o error.message
               \o <<" To fix this: update the OPENAI_API_KEY variable. Make sure the ",
                    "API key", " starts with sk-.">>)
    ELSE IF includes(error.message, "file") \/ includes(error.message, "format")
    THEN Error(<<"Failed to ", "transcribe", " audio ", "file", " ">> \o fileName
               \o <<": ">> \o error.message
               \o <<". Ensure the ", "file", " is a valid audio ", "format", ".">>)
    ELSE error

\* createDoc, the inner catch (docsError): both creation attempts failed.
createDocBothFailed(driveError, docsError) ==
    Error(<<"Failed to create ", "document", ". Drive API error: ">>
          \o driveError.message \o <<". ", "Doc", "s API error: ">>
          \o docsError.message
          \o <<". Make sure the ", "output folder", " is shared with the service account.">>)

\* createDoc, the outer catch (error)
createDocCatch(error) ==
    IF \/ error.code = 403
       \/ includes(error.message, "permission")
       \/ includes(error.message, "Permission")
    THEN Error(<<"Permission", " denied creating Google ", "Doc", ". Error details: ">>
               \o error.message
               \o <<" Troubleshooting steps: verify IAM roles, ", "Doc", "s API, Folder ",
                    "Permission", "s: make sure the ", "output folder",
                    " is shared; try creating a test ", "document", " manually.">>)
    ELSE IF error.code = 404
    THEN Error(<<"Google ", "Doc", "s API endpoint not found.">>)
    ELSE error

\* moveFileToOutputFolder, catch (error)
moveFileToOutputFolderCatch(error, outputFolderId) ==
    IF error.code = 403 \/ includes(error.message, "permission")
    THEN Error(<<"Permission", " denied moving ", "file", " to ", "output folder",
                 ". The ", "file", " being ", "move", "d; the ", "output folder",
                 " (ID: ", outputFolderId, ")">>)
    ELSE error

\* handler, folderInfo's catch (folderError)
folderErrorCatch(folderError, inputFolderId) ==
    IF folderError.code = 404 \/ folderError.code = 403
    THEN Error(<<(IF folderError.code = 404
                  THEN "Folder not found or service account doesn't have access"
                  ELSE "Access denied to folder"),
                 ". Folder ID: ", inputFolderId, " To fix this: share the folder.">>)
    ELSE folderError

\* handler, catch (fileError): the step named from the text of the message.
stepInfo(message) ==
    IF includes(message, "download") \/ includes(message, "Download")
    THEN "Step 1: Downloading file"
    ELSE IF \/ includes(message, "transcribe")
            \/ includes(message, "OpenAI")
            \/ includes(message, "API key")
    THEN "Step 2: Transcribing audio"
    ELSE IF includes(message, "Doc") \/ includes(message, "document")
    THEN "Step 3: Creating Google Doc"
    ELSE IF includes(message, "move") \/ includes(message, "output folder")
    THEN "Step 4: Moving file to output folder"
    ELSE "Unknown step"

(***************************************************************************)
(* lib/google.js: the cached credential handle.                            *)
(***************************************************************************)
NoAuth == [set |-> FALSE, email |-> "", key |-> <<>>]

\* GOOGLE_SERVICE_ACCOUNT_JSON: unset, not JSON, or a JSON object.
\* client_email "" and private_key <<>> stand for a missing field.
GoodKey == <<"-----", "BEGIN", " PRIVATE KEY-----", "\\n", "MIIE", "\\n",
             "-----", "END", " PRIVATE KEY-----">>

\* Keys with both markers that the client library refuses when the client is
\* constructed: one it cannot decode, one that is encrypted.
UndecodableKey == <<"-----", "BEGIN", " PRIVATE KEY-----", "\\n", "%%%%", "\\n",
                    "-----", "END", " PRIVATE KEY-----">>

EncryptedKey == <<"-----", "BEGIN", " ENCRYPTED PRIVATE KEY-----", "\\n", "MIIE", "\\n",
                  "-----", "END", " ENCRYPTED PRIVATE KEY-----">>

ServiceAccounts == {
    [kind |-> "unset", client_email |-> "", private_key |-> <<>>],
    [kind |-> "malformed", client_email |-> "", private_key |-> <<>>],
    [kind |-> "json", client_email |-> "", private_key |-> GoodKey],
    [kind |-> "json", client_email |-> "sa@project", private_key |-> <<>>],
    [kind |-> "json", client_email |-> "sa@project", private_key |-> <<"MIIE", "\\n">>],
    [kind |-> "json", client_email |-> "sa@project",
     private_key |-> <<"-----", "BEGIN", " PRIVATE KEY-----", "\\n", "MIIE">>],
    [kind |-> "json", client_email |-> "sa@project", private_key |-> UndecodableKey],
    [kind |-> "json", client_email |-> "sa@project", private_key |-> EncryptedKey],
    [kind |-> "json", client_email |-> "sa@project", private_key |-> GoodKey] }

\* privateKey.replace(/\\n/g, "\n")
unescapeNewlines(key) == [k \in DOMAIN key |-> IF key[k] = "\\n" THEN "\n" ELSE key[k]]

\* new JWT({email, key, scopes}): the handle, or the error of a client library
\* that refuses the key.
JWT(email, key) ==
    IF includes(key, "%%%%")
    THEN [ok |-> FALSE, handle |-> NoAuth,
          error |-> Error(<<"error:1E08010C:", "DECODER", " routines::", "unsupported">>)]
    ELSE IF includes(key, " ENCRYPTED PRIVATE KEY-----")
    THEN [ok |-> FALSE, handle |-> NoAuth,
          error |-> Error(<<"Passphrase required for encrypted key">>)]
    ELSE [ok |-> TRUE, handle |-> [set |-> TRUE, email |-> email, key |-> key],
          error |-> NoError]

\* try { cachedAuth = new JWT(...) } catch (authError): an error that names the
\* decoder is thrown anew with advice in front, any other as it is; cachedAuth
\* is assigned only when the constructor returned.
construct(cached, email, key) ==
    LET client == JWT(email, key) IN
    IF client.ok
    THEN [ok |-> TRUE, cached |-> client.handle, error |-> NoError]
    ELSE [ok |-> FALSE, cached |-> cached,
          error |-> IF \/ includes(client.error.message, "DECODER")
                       \/ includes(client.error.message, "unsupported")
                    THEN Error(<<"OpenSSL error: The private key format may be incorrect.">>
                               \o client.error.message)
                    ELSE client.error]

\* A getAuth that assigns cachedAuth as soon as the configuration was parsed,
\* ahead of the checks of its fields and of the construction of the client.
getAuthCachesEarly(cached, saJson) ==
    IF cached.set
    THEN [ok |-> TRUE, cached |-> cached, error |-> NoError]
    ELSE IF saJson.kind = "unset"
    THEN [ok |-> FALSE, cached |-> cached,
          error |-> Error(<<"GOOGLE_SERVICE_ACCOUNT_JSON environment variable is not set">>)]
    ELSE IF saJson.kind = "malformed"
    THEN [ok |-> FALSE, cached |-> cached,
          error |-> Error(<<"Failed to parse GOOGLE_SERVICE_ACCOUNT_JSON">>)]
    ELSE LET early == [set |-> TRUE, email |-> saJson.client_email,
                       key |-> saJson.private_key]
             built == construct(early, saJson.client_email,
                                unescapeNewlines(saJson.private_key))
         IN IF saJson.client_email = ""
            THEN [ok |-> FALSE, cached |-> early,
                  error |-> Error(<<"GOOGLE_SERVICE_ACCOUNT_JSON is missing client_email">>)]
            ELSE IF saJson.private_key = <<>>
            THEN [ok |-> FALSE, cached |-> early,
                  error |-> Error(<<"GOOGLE_SERVICE_ACCOUNT_JSON is missing private_key">>)]
            ELSE IF \/ ~includes(unescapeNewlines(saJson.private_key), "BEGIN")
                    \/ ~includes(unescapeNewlines(saJson.private_key), "END")
            THEN [ok |-> FALSE, cached |-> early,
                  error |-> Error(<<"Private key format appears to be incorrect.">>)]
            ELSE built

\* A getAuth that builds the handle from whatever the variable holds.
getAuthUnchecked(cached, saJson) ==
    [ok |-> TRUE,
     cached |-> [set |-> TRUE, email |-> saJson.client_email, key |-> saJson.private_key],
     error |-> NoError]

\* A getAuth without its first line: the configuration is read, parsed and
\* checked at every call and a handle built anew.
getAuthUncached(cached, saJson) ==
    IF saJson.kind = "unset"
    THEN [ok |-> FALSE, cached |-> cached,
          error |-> Error(<<"GOOGLE_SERVICE_ACCOUNT_JSON environment variable is not set">>)]
    ELSE IF saJson.kind = "malformed"
    THEN [ok |-> FALSE, cached |-> cached,
          error |-> Error(<<"Failed to parse GOOGLE_SERVICE_ACCOUNT_JSON">>)]
    ELSE IF saJson.client_email = ""
    THEN [ok |-> FALSE, cached |-> cached,
          error |-> Error(<<"GOOGLE_SERVICE_ACCOUNT_JSON is missing client_email">>)]
    ELSE IF saJson.private_key = <<>>
    THEN [ok |-> FALSE, cached |-> cached,
          error |-> Error(<<"GOOGLE_SERVICE_ACCOUNT_JSON is missing private_key">>)]
    ELSE LET privateKey == unescapeNewlines(saJson.private_key) IN
         IF ~includes(privateKey, "BEGIN") \/ ~includes(privateKey, "END")
         THEN [ok |-> FALSE, cached |-> cached,
               error |-> Error(<<"Private key format appears to be incorrect.">>)]
         ELSE construct(cached, saJson.client_email, privateKey)

\* getAuth(): the handle returned (or the error thrown) and cachedAuth afterwards.
getAuth(cached, saJson) ==
    IF cached.set
    THEN [ok |-> TRUE, cached |-> cached, error |-> NoError]
    ELSE IF saJson.kind = "unset"
    THEN [ok |-> FALSE, cached |-> cached,
          error |-> Error(<<"GOOGLE_SERVICE_ACCOUNT_JSON environment variable is not set">>)]
    ELSE IF saJson.kind = "malformed"
    THEN [ok |-> FALSE, cached |-> cached,
          error |-> Error(<<"Failed to parse GOOGLE_SERVICE_ACCOUNT_JSON">>)]
    ELSE IF saJson.client_email = ""
    THEN [ok |-> FALSE, cached |-> cached,
          error |-> Error(<<"GOOGLE_SERVICE_ACCOUNT_JSON is missing client_email">>)]
    ELSE IF saJson.private_key = <<>>
    THEN [ok |-> FALSE, cached |-> cached,
          error |-> Error(<<"GOOGLE_SERVICE_ACCOUNT_JSON is missing private_key">>)]
    ELSE LET privateKey == unescapeNewlines(saJson.private_key) IN
         IF ~includes(privateKey, "BEGIN") \/ ~includes(privateKey, "END")
         THEN [ok |-> FALSE, cached |-> cached,
               error |-> Error(<<"Private key format appears to be incorrect.">>)]
         ELSE construct(cached, saJson.client_email, privateKey)

\* getDriveClient() and getDocsClient(): a client around the handle of getAuth().
getDriveClient(cached, saJson) == getAuth(cached, saJson)

getDocsClient(cached, saJson) == getAuth(cached, saJson)

(***************************************************************************)
(* The Drive store.  A file's createdTime is its id: a larger id is newer. *)
(***************************************************************************)
newestFirst(S) ==
    [k \in 1..Cardinality(S) |->
        CHOOSE x \in S : Cardinality({y \in S : y > x}) = k - 1]

firstPage(s, pageSize) == IF Len(s) > pageSize THEN SubSeq(s, 1, pageSize) ELSE s

\* queries[0]: mimeType = one of the audio types, or mimeType contains 'audio/'
mimeTypeQuery(f) == includes(f.mimeType, "audio/")

\* queries[1]: name contains one of the audio extensions
extensionQuery(f) ==
    \E ext \in {".mp3", ".wav", ".m4a", ".mp4", ".ogg", ".flac"} : includes(f.name, ext)

\* The part of q after `'${folderId}' in parents`.
matches(query, f) ==
    CASE query = "mimeType" -> mimeTypeQuery(f)
      [] query = "extension" -> extensionQuery(f)
      [] OTHER -> TRUE

\* A listing that leaves out the files a document was already written for.
filesListWithoutDocument(store, folderId, query, pageSize) ==
    LET ids == {id \in DOMAIN store :
                    /\ folderId \in store[id].parents
                    /\ matches(query, store[id])
                    /\ ~\E d \in DOMAIN docs : docs[d].source = id}
        page == firstPage(newestFirst(ids), pageSize)
    IN [k \in DOMAIN page |->
            [id |-> page[k], name |-> store[page[k]].name,
             mimeType |-> store[page[k]].mimeType]]

\* A listing that leaves out the files a request in its loop has listed: what a
\* claim step before the loop would give.
filesListUnclaimed(store, folderId, query, pageSize) ==
    LET claimed(id) ==
            \E j \in DOMAIN h :
                /\ h[j].pc \notin {"idle", "done", "retired", "folderInfo",
                                   "allFiles", "listMime", "listExt"}
                /\ \E k \in DOMAIN h[j].files : h[j].files[k].id = id
        ids == {id \in DOMAIN store :
                    /\ folderId \in store[id].parents
                    /\ matches(query, store[id])
                    /\ ~claimed(id)}
        page == firstPage(newestFirst(ids), pageSize)
    IN [k \in DOMAIN page |->
            [id |-> page[k], name |-> store[page[k]].name,
             mimeType |-> store[page[k]].mimeType]]

\* drive.files.list({q: `'${folderId}' in parents and ...`, orderBy: "createdTime
\* desc", pageSize}): the first page only, as the code never asks for a second.
filesList(store, folderId, query, pageSize) ==
    LET ids == {id \in DOMAIN store :
                    folderId \in store[id].parents /\ matches(query, store[id])}
        page == firstPage(newestFirst(ids), pageSize)
    IN [k \in DOMAIN page |->
            [id |-> page[k], name |-> store[page[k]].name,
             mimeType |-> store[page[k]].mimeType]]

\* What a file of the model can be.  appProperties holds the key/value pairs
\* the application attached to the file.
voiceFile(folder) ==
    [name |-> <<"voice", ".mp3">>, mimeType |-> <<"audio/", "mpeg">>, parents |-> {folder},
     appProperties |-> {}]
untypedFile(folder) ==
    [name |-> <<"download", ".m4a">>, mimeType |-> <<"application/octet-stream">>,
     parents |-> {folder}, appProperties |-> {}]
textFile(folder) ==
    [name |-> <<"notes", ".txt">>, mimeType |-> <<"text/plain">>, parents |-> {folder},
     appProperties |-> {}]

\* transcription.text for the audio of a file
transcriptOf(fileId) == <<"transcript of ", ToString(fileId)>>

(***************************************************************************)
(* The handler's frame: its locals, its position (the await it is at), the *)
(* response it sent, and a log of the remote calls that returned to it.    *)
(***************************************************************************)
NoResponse == [status |-> 0]

\* A value read from a response: absent (undefined) or a string.
Undefined == [defined |-> FALSE, text |-> <<>>]

IdleFrame ==
    [pc |-> "idle", allFiles |-> <<>>, files |-> <<>>, idx |-> 0, results |-> <<>>,
     transcriptionText |-> <<>>, driveError |-> NoError, documentId |-> 0,
     currentParents |-> {}, previousParents |-> {}, res |-> NoResponse, calls |-> <<>>,
     succeeded |-> {}, transcriptText |-> Undefined, summary |-> <<>>]

\* The ids of the files a run reported as "success".
successIds(f) ==
    IF f.pc = "retired" THEN f.succeeded
    ELSE {f.results[k].fileId : k \in {n \in DOMAIN f.results : f.results[n].status = "success"}}

\* Once a request is answered and a later one arrives, nothing of its frame is
\* left in the process; the model keeps the status it answered with and which
\* files it reported done, for comparing runs.
retired(f) ==
    IF f.pc \in {"done", "retired"}
    THEN [IdleFrame EXCEPT !.pc = "retired", !.res = [status |-> f.res.status],
                           !.succeeded = successIds(f)]
    ELSE f

\* The awaits of one file's pass through the loop.
FilePcs == {"download", "transcribe", "driveCreate", "docsCreate", "docMove",
            "docVerify", "docFix", "insertText", "getParents", "moveFile"}

\* The awaits before the loop.
SetupPcs == {"folderInfo", "allFiles", "listMime", "listExt"}

Invocations == DOMAIN h

file(f) == f.files[f.idx]

\* A remote call returns: it, the file it was for and whether it succeeded are
\* logged, and a failure uses up one of the failures the behaviour may see.
Outcomes(errors) == {NoError} \cup (IF faults > 0 THEN errors ELSE {})

logged(f, op, o) ==
    [f EXCEPT !.calls = Append(@, [op |-> op,
                                   fileId |-> IF f.idx = 0 THEN 0 ELSE file(f).id,
                                   ok |-> o = NoError])]

spend(o) == faults' = IF o = NoError THEN faults ELSE faults - 1

\* res.status(code).json(body)
respond(f, code, body) == [f EXCEPT !.pc = "done", !.res = [status |-> code, body |-> body]]

\* A handler whose outer catch answers like the end of an empty loop.
handlerCatchReports(f, err) ==
    respond(f, 200, [message |-> "Processing complete", processed |-> 0,
                     failed |-> 0, results |-> <<>>])

\* handler, catch (err): res.status(500).json({error: err.message})
handlerCatch(f, err) == respond(f, 500, [error |-> err.message])

\* After the loop: res.status(200).json({message, processed, failed, results})
count(results, status) == Cardinality({k \in DOMAIN results : results[k].status = status})

report(f) ==
    respond(f, 200, [message |-> "Processing complete",
                     processed |-> count(f.results, "success"),
                     failed |-> count(f.results, "error"),
                     results |-> f.results])

\* The head of the loop: the next file's downloadFile is awaited, or the loop ends.
forNextFile(f) ==
    IF f.idx < Len(f.files)
    THEN [f EXCEPT !.pc = "download", !.idx = @ + 1, !.transcriptionText = <<>>,
                   !.driveError = NoError, !.documentId = 0,
                   !.currentParents = {}, !.previousParents = {}]
    ELSE report(f)

\* A loop without the try/catch around its body: the file's error reaches the
\* handler's outer catch.
fileErrorAborts(f, fileError) == handlerCatch(f, fileError)

\* A loop whose catch only logs the error and pushes no entry.
fileErrorDropped(f, fileError) == forNextFile(f)

\* handler, catch (fileError): the error entry, then on to the next file.
fileErrorCatch(f, fileError) ==
    forNextFile([f EXCEPT !.results = Append(@,
        [fileName |-> file(f).name, fileId |-> file(f).id, status |-> "error",
         error |-> fileError.message, step |-> stepInfo(fileError.message),
         errorCode |-> fileError.code])])

\* The end of the try block of the loop body: the success entry.
fileDone(f) ==
    forNextFile([f EXCEPT !.results = Append(@,
        [fileName |-> file(f).name, fileId |-> file(f).id, docId |-> f.documentId,
         docUrl |-> docUrl(f.documentId), status |-> "success"])])

\* A handler without the files.length === 0 return.
filesListedNoEmptyCheck(f, files) ==
    forNextFile([f EXCEPT !.files = files, !.idx = 0, !.results = <<>>])

\* const files = await listAudioFiles(inputFolderId) has returned.
filesListed(f, files) ==
    IF Len(files) = 0
    THEN respond(f, 200,
                 [message |-> "No new audio files found in input folder",
                  debug |-> [folderId |-> env.INPUT_FOLDER_ID,
                             totalFilesInFolder |-> Len(f.allFiles),
                             filesInFolder |-> f.allFiles],
                  results |-> <<>>])
    ELSE forNextFile([f EXCEPT !.files = files, !.idx = 0, !.results = <<>>])

(***************************************************************************)
(* The handler, one action per await.                                      *)
(***************************************************************************)
Methods == {"GET", "POST", "OPTIONS", "DELETE"}

\* A handler without the method gate: every method runs the pipeline.
handlerWithoutGate(i, method) ==
    /\ h[i].pc = "idle"
    /\ \A j \in Invocations : j < i => h[j].pc # "idle"
    /\ overlap \/ \A j \in Invocations : h[j].pc \in {"idle", "done", "retired"}
    /\ LET auth == getAuth(cachedAuth, env.GOOGLE_SERVICE_ACCOUNT_JSON)
           f == h[i]
           enter(frame) == h' = [j \in Invocations |->
                                    IF j = i THEN frame ELSE retired(h[j])]
       IN IF env.INPUT_FOLDER_ID = ""
          THEN /\ enter(handlerCatch(f, Error(<<"INPUT_FOLDER_ID is niet gezet">>)))
               /\ UNCHANGED cachedAuth
          ELSE IF env.OUTPUT_FOLDER_ID = ""
          THEN /\ enter(handlerCatch(f, Error(<<"OUTPUT_FOLDER_ID is niet gezet">>)))
               /\ UNCHANGED cachedAuth
          ELSE IF ~auth.ok
          THEN /\ enter(handlerCatch(f, auth.error))
               /\ cachedAuth' = auth.cached
          ELSE /\ enter([f EXCEPT !.pc = "folderInfo"])
               /\ cachedAuth' = auth.cached
    /\ UNCHANGED <<env, drive, docs, faults, overlap>>

\* A request arrives: the method gate, the configuration checks and
\* getDriveClient(), up to the await of the folder lookup.  Requests are numbered
\* in order of arrival; without overlap a request waits for the one before it.
handler(i, method) ==
    /\ h[i].pc = "idle"
    /\ \A j \in Invocations : j < i => h[j].pc # "idle"
    /\ overlap \/ \A j \in Invocations : h[j].pc \in {"idle", "done", "retired"}
    /\ LET auth == getAuth(cachedAuth, env.GOOGLE_SERVICE_ACCOUNT_JSON)
           f == h[i]
           enter(frame) == h' = [j \in Invocations |->
                                    IF j = i THEN frame ELSE retired(h[j])]
       IN IF method = "OPTIONS"
          THEN /\ enter([f EXCEPT !.pc = "done", !.res = [status |-> 200]])
               /\ UNCHANGED cachedAuth
          ELSE IF method # "GET" /\ method # "POST"
          THEN /\ enter(respond(f, 405, [error |-> "Method not allowed"]))
               /\ UNCHANGED cachedAuth
          ELSE IF env.INPUT_FOLDER_ID = ""
          THEN /\ enter(handlerCatch(f, Error(<<"INPUT_FOLDER_ID is niet gezet">>)))
               /\ UNCHANGED cachedAuth
          ELSE IF env.OUTPUT_FOLDER_ID = ""
          THEN /\ enter(handlerCatch(f, Error(<<"OUTPUT_FOLDER_ID is niet gezet">>)))
               /\ UNCHANGED cachedAuth
          ELSE IF ~auth.ok
          THEN /\ enter(handlerCatch(f, auth.error))
               /\ cachedAuth' = auth.cached
          ELSE /\ enter([f EXCEPT !.pc = "folderInfo"])
               /\ cachedAuth' = auth.cached
    /\ UNCHANGED <<env, drive, docs, faults, overlap>>

\* folderInfo = await drive.files.get({fileId: inputFolderId, ...})
handler_folderInfo(i) ==
    /\ h[i].pc = "folderInfo"
    /\ \E o \in Outcomes(DriveErrors) :
          LET f == logged(h[i], "folderInfo", o)
          IN /\ h' = [h EXCEPT ![i] =
                        IF o = NoError
                        THEN [f EXCEPT !.pc = "allFiles"]
                        ELSE handlerCatch(f, folderErrorCatch(o, env.INPUT_FOLDER_ID))]
             /\ spend(o)
    /\ UNCHANGED <<env, cachedAuth, drive, docs, overlap>>

\* allFilesRes = await drive.files.list({q: `'${inputFolderId}' in parents and
\* trashed=false`, pageSize: 100}), then listAudioFiles awaits its first query.
handler_allFiles(i) ==
    /\ h[i].pc = "allFiles"
    /\ \E o \in Outcomes(DriveErrors) :
          LET f == logged(h[i], "allFiles", o)
          IN /\ h' = [h EXCEPT ![i] =
                        IF o = NoError
                        THEN [f EXCEPT !.pc = "listMime",
                                       !.allFiles = filesList(drive, env.INPUT_FOLDER_ID,
                                                              "all", PageSize)]
                        ELSE handlerCatch(f, o)]
             /\ spend(o)
    /\ UNCHANGED <<env, cachedAuth, drive, docs, overlap>>

\* A listAudioFiles that issues the extension query whatever the first query
\* returned.
listAudioFiles_bothQueries(i) ==
    /\ h[i].pc = "listMime"
    /\ \E o \in Outcomes(DriveErrors) :
          LET f == logged(h[i], "listMime", o)
          IN /\ h' = [h EXCEPT ![i] =
                        IF o # NoError THEN handlerCatch(f, o)
                        ELSE [f EXCEPT !.pc = "listExt"]]
             /\ spend(o)
    /\ UNCHANGED <<env, cachedAuth, drive, docs, overlap>>

\* listAudioFiles: res = await drive.files.list({q: queries[0], ...})
listAudioFiles_mimeType(i) ==
    /\ h[i].pc = "listMime"
    /\ \E o \in Outcomes(DriveErrors) :
          LET f == logged(h[i], "listMime", o)
              allFiles == filesList(drive, env.INPUT_FOLDER_ID, "mimeType", PageSize)
          IN /\ h' = [h EXCEPT ![i] =
                        IF o # NoError THEN handlerCatch(f, o)
                        ELSE IF Len(allFiles) = 0 THEN [f EXCEPT !.pc = "listExt"]
                        ELSE filesListed(f, allFiles)]
             /\ spend(o)
    /\ UNCHANGED <<env, cachedAuth, drive, docs, overlap>>

\* listAudioFiles: res = await drive.files.list({q: queries[1], ...})
listAudioFiles_extension(i) ==
    /\ h[i].pc = "listExt"
    /\ \E o \in Outcomes(DriveErrors) :
          LET f == logged(h[i], "listExt", o)
              allFiles == filesList(drive, env.INPUT_FOLDER_ID, "extension", PageSize)
          IN /\ h' = [h EXCEPT ![i] =
                        IF o # NoError THEN handlerCatch(f, o)
                        ELSE filesListed(f, allFiles)]
             /\ spend(o)
    /\ UNCHANGED <<env, cachedAuth, drive, docs, overlap>>

\* A loop body that calls the download again when it failed.
downloadFileRetrying(i) ==
    /\ h[i].pc = "download"
    /\ \E o \in Outcomes(DriveErrors) :
          LET f == logged(h[i], "download", o)
          IN /\ h' = [h EXCEPT ![i] = IF o = NoError
                                      THEN [f EXCEPT !.pc = "transcribe"]
                                      ELSE f]
             /\ spend(o)
    /\ UNCHANGED <<env, cachedAuth, drive, docs, overlap>>

\* A loop that starts the download of the following file together with the
\* download of the current one.
downloadFilePrefetch(i) ==
    /\ h[i].pc = "download"
    /\ \E o \in Outcomes(DriveErrors) :
          LET g == IF h[i].idx < Len(h[i].files)
                   THEN [h[i] EXCEPT !.calls = Append(@,
                            [op |-> "download", fileId |-> h[i].files[h[i].idx + 1].id,
                             ok |-> TRUE])]
                   ELSE h[i]
              f == logged(g, "download", o)
          IN /\ h' = [h EXCEPT ![i] =
                        IF o = NoError
                        THEN [f EXCEPT !.pc = "transcribe"]
                        ELSE fileErrorCatch(f, downloadFileCatch(o, file(f).id))]
             /\ spend(o)
    /\ UNCHANGED <<env, cachedAuth, drive, docs, overlap>>

\* Step 1: audioBuffer = await downloadFile(file.id)
downloadFile(i) ==
    /\ h[i].pc = "download"
    /\ \E o \in Outcomes(DriveErrors) :
          LET f == logged(h[i], "download", o)
          IN /\ h' = [h EXCEPT ![i] =
                        IF o = NoError
                        THEN [f EXCEPT !.pc = "transcribe"]
                        ELSE fileErrorCatch(f, downloadFileCatch(o, file(f).id))]
             /\ spend(o)
    /\ UNCHANGED <<env, cachedAuth, drive, docs, overlap>>

\* A loop body that puts a file whose transcription failed out of the input
\* folder.
transcribeAudioOrSetAside(i) ==
    /\ h[i].pc = "transcribe"
    /\ \E o \in Outcomes(OpenAIErrors) :
          LET f == logged(h[i], "transcribe", o)
          IN /\ IF o = NoError
                THEN /\ drive' = drive
                     /\ h' = [h EXCEPT ![i] =
                                [f EXCEPT !.transcriptionText = transcriptOf(file(f).id),
                                          !.pc = IF env.OUTPUT_FOLDER_ID # ""
                                                 THEN "driveCreate" ELSE "docsCreate"]]
                ELSE /\ drive' = [drive EXCEPT ![file(f).id].parents = {OtherFolder}]
                     /\ h' = [h EXCEPT ![i] =
                                fileErrorCatch(f, transcribeAudioCatch(o, file(f).name))]
             /\ spend(o)
    /\ UNCHANGED <<env, cachedAuth, docs, overlap>>

\* A loop body that goes on to the document after the transcription failed,
\* with an empty transcript.
transcribeAudioSwallowed(i) ==
    /\ h[i].pc = "transcribe"
    /\ \E o \in Outcomes(OpenAIErrors) :
          LET f == logged(h[i], "transcribe", o)
          IN /\ h' = [h EXCEPT ![i] =
                        [f EXCEPT !.transcriptionText =
                                      IF o = NoError THEN transcriptOf(file(f).id) ELSE <<>>,
                                  !.pc = IF env.OUTPUT_FOLDER_ID # ""
                                         THEN "driveCreate" ELSE "docsCreate"]]
             /\ spend(o)
    /\ UNCHANGED <<env, cachedAuth, drive, docs, overlap>>

\* Step 2: transcriptionText = await transcribeAudio(audioBuffer, file.name);
\* then createDoc awaits its first creation attempt.
transcribeAudio(i) ==
    /\ h[i].pc = "transcribe"
    /\ \E o \in Outcomes(OpenAIErrors) :
          LET f == logged(h[i], "transcribe", o)
          IN /\ h' = [h EXCEPT ![i] =
                        IF o = NoError
                        THEN [f EXCEPT !.transcriptionText = transcriptOf(file(f).id),
                                       !.pc = IF env.OUTPUT_FOLDER_ID # ""
                                              THEN "driveCreate" ELSE "docsCreate"]
                        ELSE fileErrorCatch(f, transcribeAudioCatch(o, file(f).name))]
             /\ spend(o)
    /\ UNCHANGED <<env, cachedAuth, drive, docs, overlap>>

(***************************************************************************)
(* Step 3: createDoc(docTitle, transcriptionText, outputFolderId).         *)
(***************************************************************************)
newDoc(i, f, folder) ==
    [title |-> docTitle(file(f).name), parents |-> {folder}, content |-> <<>>,
     source |-> file(f).id, by |-> i]

\* After the creation phase: the check of the document's place, or the insertion.
afterCreation(f, documentId) ==
    [f EXCEPT !.documentId = documentId,
              !.pc = IF env.OUTPUT_FOLDER_ID # "" /\ documentId # 0
                     THEN "docVerify" ELSE "insertText"]

\* A createDoc without the fallback: a failed direct creation leaves createDoc.
createDoc_driveCreateOnly(i) ==
    /\ h[i].pc = "driveCreate"
    /\ \E o \in Outcomes(DriveErrors) :
          LET f == logged(h[i], "driveCreate", o)
          IN /\ IF o = NoError
                THEN /\ docs' = Append(docs, newDoc(i, f, env.OUTPUT_FOLDER_ID))
                     /\ h' = [h EXCEPT ![i] = afterCreation(f, Len(docs) + 1)]
                ELSE /\ docs' = docs
                     /\ h' = [h EXCEPT ![i] = fileErrorCatch(f, createDocCatch(o))]
             /\ spend(o)
    /\ UNCHANGED <<env, cachedAuth, drive, overlap>>

\* Method 1: driveFile = await drive.files.create({requestBody: {name, mimeType,
\* parents: [outputFolderId]}})
createDoc_driveCreate(i) ==
    /\ h[i].pc = "driveCreate"
    /\ \E o \in Outcomes(DriveErrors) :
          LET f == logged(h[i], "driveCreate", o)
          IN /\ IF o = NoError
                THEN /\ docs' = Append(docs, newDoc(i, f, env.OUTPUT_FOLDER_ID))
                     /\ h' = [h EXCEPT ![i] = afterCreation(f, Len(docs) + 1)]
                ELSE /\ docs' = docs
                     /\ h' = [h EXCEPT ![i] = [f EXCEPT !.driveError = o,
                                                        !.pc = "docsCreate"]]
             /\ spend(o)
    /\ UNCHANGED <<env, cachedAuth, drive, overlap>>

\* Method 2: doc = await docs.documents.create({requestBody: {title}})
createDoc_docsCreate(i) ==
    /\ h[i].pc = "docsCreate"
    /\ \E o \in Outcomes(DriveErrors) :
          LET f == logged(h[i], "docsCreate", o)
          IN /\ IF o = NoError
                THEN /\ docs' = Append(docs, newDoc(i, f, Root))
                     /\ h' = [h EXCEPT ![i] =
                                IF env.OUTPUT_FOLDER_ID # ""
                                THEN [f EXCEPT !.documentId = Len(docs) + 1,
                                               !.pc = "docMove"]
                                ELSE afterCreation(f, Len(docs) + 1)]
                ELSE /\ docs' = docs
                     /\ h' = [h EXCEPT ![i] =
                                fileErrorCatch(f, createDocCatch(
                                    IF env.OUTPUT_FOLDER_ID # ""
                                    THEN createDocBothFailed(f.driveError, o)
                                    ELSE o))]
             /\ spend(o)
    /\ UNCHANGED <<env, cachedAuth, drive, overlap>>

\* An update that sends removeParents only: the file is left in no folder.
removeParentsOnly(store, id, addParents, removeParents) ==
    [store EXCEPT ![id].parents = @ \ removeParents]

\* An update that sends addParents only: the file is then in both folders.
addParentOnly(store, id, addParents, removeParents) ==
    [store EXCEPT ![id].parents = @ \cup {addParents}]

\* drive.files.update({fileId, addParents, removeParents}) on a document
updateParents(store, id, addParents, removeParents) ==
    [store EXCEPT ![id].parents = (@ \ removeParents) \cup {addParents}]

\* The follow-up move: await drive.files.update({fileId: documentId, addParents:
\* outputFolderId}); catch (moveError) only warns.
createDoc_docMove(i) ==
    /\ h[i].pc = "docMove"
    /\ \E o \in Outcomes(DriveErrors) :
          LET f == logged(h[i], "docMove", o)
          IN /\ docs' = IF o = NoError
                        THEN updateParents(docs, f.documentId, env.OUTPUT_FOLDER_ID, {})
                        ELSE docs
             /\ h' = [h EXCEPT ![i] = afterCreation(f, f.documentId)]
             /\ spend(o)
    /\ UNCHANGED <<env, cachedAuth, drive, overlap>>

\* file = await drive.files.get({fileId: documentId, fields: "parents"});
\* catch (moveError) only warns.
createDoc_docVerify(i) ==
    /\ h[i].pc = "docVerify"
    /\ \E o \in Outcomes(DriveErrors) :
          LET f == logged(h[i], "docVerify", o)
              currentParents == docs[f.documentId].parents
          IN /\ h' = [h EXCEPT ![i] =
                        IF o = NoError /\ env.OUTPUT_FOLDER_ID \notin currentParents
                        THEN [f EXCEPT !.currentParents = currentParents, !.pc = "docFix"]
                        ELSE [f EXCEPT !.pc = "insertText"]]
             /\ spend(o)
    /\ UNCHANGED <<env, cachedAuth, drive, docs, overlap>>

\* A createDoc whose corrective move is not guarded: its failure leaves createDoc.
createDoc_docFixRaises(i) ==
    /\ h[i].pc = "docFix"
    /\ \E o \in Outcomes(DriveErrors) :
          LET f == logged(h[i], "docFix", o)
          IN /\ docs' = IF o = NoError
                        THEN updateParents(docs, f.documentId, env.OUTPUT_FOLDER_ID,
                                           f.currentParents)
                        ELSE docs
             /\ h' = [h EXCEPT ![i] = IF o = NoError
                                      THEN [f EXCEPT !.pc = "insertText"]
                                      ELSE fileErrorCatch(f, createDocCatch(o))]
             /\ spend(o)
    /\ UNCHANGED <<env, cachedAuth, drive, overlap>>

\* The corrective move: await drive.files.update({fileId: documentId, addParents:
\* outputFolderId, removeParents: currentParents.join(",")}); catch only warns.
createDoc_docFix(i) ==
    /\ h[i].pc = "docFix"
    /\ \E o \in Outcomes(DriveErrors) :
          LET f == logged(h[i], "docFix", o)
          IN /\ docs' = IF o = NoError
                        THEN updateParents(docs, f.documentId, env.OUTPUT_FOLDER_ID,
                                           f.currentParents)
                        ELSE docs
             /\ h' = [h EXCEPT ![i] = [f EXCEPT !.pc = "insertText"]]
             /\ spend(o)
    /\ UNCHANGED <<env, cachedAuth, drive, overlap>>

\* insertText at {index: 1}: the text goes in front of what the body holds.
insertText(content, text) == text \o content

\* A createDoc that rolls back: when the insertion fails the document it
\* created (the newest of the store) is deleted before the error leaves.
createDoc_insertTextOrDelete(i) ==
    /\ h[i].pc = "insertText"
    /\ \E o \in Outcomes(DriveErrors) :
          LET f == logged(h[i], "insertText", o)
          IN /\ IF o = NoError
                THEN /\ docs' = [docs EXCEPT ![f.documentId].content =
                                        insertText(@, f.transcriptionText)]
                     /\ h' = [h EXCEPT ![i] = [f EXCEPT !.pc = "getParents"]]
                ELSE /\ docs' = SubSeq(docs, 1, Len(docs) - 1)
                     /\ h' = [h EXCEPT ![i] = fileErrorCatch(f, createDocCatch(o))]
             /\ spend(o)
    /\ UNCHANGED <<env, cachedAuth, drive, overlap>>

\* await docs.documents.batchUpdate({documentId, requests: [{insertText: ...}]});
\* createDoc returns documentId and moveFileToOutputFolder awaits the parents.
createDoc_insertText(i) ==
    /\ h[i].pc = "insertText"
    /\ \E o \in Outcomes(DriveErrors) :
          LET f == logged(h[i], "insertText", o)
          IN /\ IF o = NoError
                THEN /\ docs' = [docs EXCEPT ![f.documentId].content =
                                        insertText(@, f.transcriptionText)]
                     /\ h' = [h EXCEPT ![i] = [f EXCEPT !.pc = "getParents"]]
                ELSE /\ docs' = docs
                     /\ h' = [h EXCEPT ![i] = fileErrorCatch(f, createDocCatch(o))]
             /\ spend(o)
    /\ UNCHANGED <<env, cachedAuth, drive, overlap>>

(***************************************************************************)
(* Step 4: moveFileToOutputFolder(file.id, outputFolderId).                *)
(***************************************************************************)
\* What drive.files.update can leave behind when it succeeds.  The request names
\* the parents to remove and the parent to add; when the folder to add is also
\* among those to remove (the output folder is the folder the file is in) the
\* code does not say which of the two the service applies last, so both
\* results are possible.
moveOutcomes(store, id, addParents, removeParents) ==
    {updateParents(store, id, addParents, removeParents),
     [store EXCEPT ![id].parents = (@ \cup {addParents}) \ removeParents]}

\* file = await drive.files.get({fileId, fields: "parents"})
moveFileToOutputFolder_get(i) ==
    /\ h[i].pc = "getParents"
    /\ \E o \in Outcomes(DriveErrors) :
          LET f == logged(h[i], "getParents", o)
          IN /\ h' = [h EXCEPT ![i] =
                        IF o = NoError
                        THEN [f EXCEPT !.previousParents = drive[file(f).id].parents,
                                       !.pc = "moveFile"]
                        ELSE fileErrorCatch(f, moveFileToOutputFolderCatch(
                                                   o, env.OUTPUT_FOLDER_ID))]
             /\ spend(o)
    /\ UNCHANGED <<env, cachedAuth, drive, docs, overlap>>

\* await drive.files.update({fileId, addParents: outputFolderId, removeParents:
\* previousParents}); then the success entry.
moveFileToOutputFolder_update(i) ==
    /\ h[i].pc = "moveFile"
    /\ \E o \in Outcomes(DriveErrors) :
          LET f == logged(h[i], "moveFile", o)
          IN /\ IF o = NoError
                THEN /\ drive' \in moveOutcomes(drive, file(f).id, env.OUTPUT_FOLDER_ID,
                                                f.previousParents)
                     /\ h' = [h EXCEPT ![i] = fileDone(f)]
                ELSE /\ drive' = drive
                     /\ h' = [h EXCEPT ![i] =
                                fileErrorCatch(f, moveFileToOutputFolderCatch(
                                                      o, env.OUTPUT_FOLDER_ID))]
             /\ spend(o)
    /\ UNCHANGED <<env, cachedAuth, docs, overlap>>

(***************************************************************************)
(* unnamed/part_000: the variant of the endpoint that summarises the       *)
(* transcript and tags the source file as processed instead of moving it.  *)
(* Its loop has no catch of its own: the first error of a file ends the    *)
(* request in the handler's catch.                                         *)
(***************************************************************************)
\* const PROCESS_LABEL_KEY = process.env.PROCESS_LABEL_KEY || "processed_by_automation"
PROCESS_LABEL_KEY ==
    IF env.PROCESS_LABEL_KEY = "" THEN "processed_by_automation" ELSE env.PROCESS_LABEL_KEY

\* A filter that takes any value under the key for the marker.
isProcessedAnyValue(fileRec) == \E p \in fileRec.appProperties : p.key = PROCESS_LABEL_KEY

\* f.appProperties && f.appProperties[PROCESS_LABEL_KEY] === "true"
isProcessed(fileRec) == [key |-> PROCESS_LABEL_KEY, value |-> "true"] \in fileRec.appProperties

\* drive.files.list({q: `'${INPUT_FOLDER}' in parents`, fields: "files(id,name,
\* mimeType,appProperties)"}): no orderBy, so the files come in some order.
Orders(S) ==
    {o \in [1..Cardinality(S) -> S] : \A a, b \in 1..Cardinality(S) : a # b => o[a] # o[b]}

filesListAll(store, folderId) ==
    LET ids == {id \in DOMAIN store : folderId \in store[id].parents}
    IN {[k \in DOMAIN o |->
            [id |-> o[k], name |-> store[o[k]].name, mimeType |-> store[o[k]].mimeType,
             appProperties |-> store[o[k]].appProperties]] : o \in Orders(ids)}

\* files.filter(f => !(...)): the elements that pass, in their order.
RECURSIVE filter(_)
filter(files) ==
    IF files = <<>> THEN <<>>
    ELSE IF isProcessed(Head(files)) THEN filter(Tail(files))
    ELSE <<Head(files)>> \o filter(Tail(files))

\* A value read from a response that is a string.
Text(s) == [defined |-> TRUE, text |-> s]

\* What is falsy for ||: undefined, null and the empty string.
truthy(v) == v.defined /\ v.text # <<>>

\* `${v}` inside a template literal
template(v) == IF v.defined THEN v.text ELSE <<"undefined">>

\* tResp.data of the transcription request: text, an empty text, or no text.
TranscriptionResponses(fileId) == {Text(transcriptOf(fileId)), Text(<<>>), Undefined}

\* chatResp: which of choices[0].message.content, output[0].content and
\* choices[0].text it carries.
UsualChatResponse ==
    [content |-> Text(<<"summary (message)">>), output |-> Undefined, text |-> Undefined]

ChatResponses == {
    UsualChatResponse,
    [content |-> Text(<<"summary (message)">>), output |-> Undefined,
     text |-> Text(<<"summary (text)">>)],
    [content |-> Undefined, output |-> Text(<<"summary (output)">>),
     text |-> Text(<<"summary (text)">>)],
    [content |-> Text(<<>>), output |-> Undefined, text |-> Text(<<"summary (text)">>)],
    [content |-> Text(<<>>), output |-> Undefined, text |-> Undefined] }

\* A service answers as usual, or, like a failure, in another of its shapes: the
\* behaviour sees a bounded number of either.
Answers(responses, usual) == IF faults > 0 THEN responses ELSE {usual}

spendIfNot(response, usual) == faults' = IF response = usual THEN faults ELSE faults - 1

\* A normalisation that takes choices[0].text first.
summaryTextFirst(chatResp) ==
    IF truthy(chatResp.text) THEN chatResp.text.text
    ELSE IF truthy(chatResp.content) THEN chatResp.content.text
    ELSE IF truthy(chatResp.output) THEN chatResp.output.text
    ELSE <<>>

\* summary = chatResp?.choices?.[0]?.message?.content || chatResp?.output?.[0]?.content
\*           || chatResp?.choices?.[0]?.text || ""
summaryOf(chatResp) ==
    IF truthy(chatResp.content) THEN chatResp.content.text
    ELSE IF truthy(chatResp.output) THEN chatResp.output.text
    ELSE IF truthy(chatResp.text) THEN chatResp.text.text
    ELSE <<>>

\* `Bestand: ${file.name}\n\nSamenvatting:\n${summary}\n\nTranscript:\n${transcriptText}`
insertTextOf(name, summary, transcriptText) ==
    <<"Bestand: ">> \o name \o <<"Samenvatting:">> \o summary
        \o <<"Transcript:">> \o template(transcriptText)

\* The awaits of the variant.
TagPcs == {"tagList", "tagDownload", "tagTranscribe", "tagSummarize", "tagDocsCreate",
           "tagInsertText", "tagGetParents", "tagMoveDoc", "tagMark"}

\* The head of the loop, or after it res.status(200).json({processed: results}).
tagNextFile(f) ==
    IF f.idx < Len(f.files)
    THEN [f EXCEPT !.pc = "tagDownload", !.idx = @ + 1, !.transcriptText = Undefined,
                   !.summary = <<>>, !.documentId = 0, !.previousParents = {}]
    ELSE respond(f, 200, [processed |-> f.results])

\* A loop with a catch of its own: the error of a file is dropped and the loop
\* goes on with the next file.
handlerTagCatchGoesOn(f, err) == tagNextFile(f)

\* handler, catch (err): res.status(500).json({error: err.message, stack: err.stack})
handlerTagCatch(f, err) == respond(f, 500, [error |-> err.message, stack |-> <<"stack">>])

\* What is left of an answered request of the variant when a later one arrives.
retiredTag(f) ==
    IF f.pc \in {"done", "retired"}
    THEN [IdleFrame EXCEPT !.pc = "retired", !.res = [status |-> f.res.status],
                           !.succeeded = IF f.pc = "retired" THEN f.succeeded
                                         ELSE {f.files[k].id : k \in DOMAIN f.results}]
    ELSE f

\* A request arrives: drive = getDriveClient(); docs = getDocsClient(); then
\* listUnprocessedMp3s awaits its listing.
handlerTag(i) ==
    /\ h[i].pc = "idle"
    /\ \A j \in Invocations : j < i => h[j].pc # "idle"
    /\ overlap \/ \A j \in Invocations : h[j].pc \in {"idle", "done", "retired"}
    /\ LET auth == getDriveClient(cachedAuth, env.GOOGLE_SERVICE_ACCOUNT_JSON)
           frame == IF auth.ok THEN [h[i] EXCEPT !.pc = "tagList"]
                    ELSE handlerTagCatch(h[i], auth.error)
       IN /\ h' = [j \in Invocations |-> IF j = i THEN frame ELSE retiredTag(h[j])]
          /\ cachedAuth' = auth.cached
    /\ UNCHANGED <<env, drive, docs, faults, overlap>>

\* files = await listUnprocessedMp3s(drive);
\* if (!files.length) return res.status(200).json({message: "No new files"})
listUnprocessedMp3s(i) ==
    /\ h[i].pc = "tagList"
    /\ \E o \in Outcomes(DriveErrors) :
          LET f == logged(h[i], "tagList", o)
          IN /\ IF o # NoError
                THEN h' = [h EXCEPT ![i] = handlerTagCatch(f, o)]
                ELSE \E listing \in filesListAll(drive, env.INPUT_FOLDER_ID) :
                        LET files == filter(listing)
                        IN h' = [h EXCEPT ![i] =
                                    IF Len(files) = 0
                                    THEN respond(f, 200, [message |-> "No new files"])
                                    ELSE tagNextFile([f EXCEPT !.files = files, !.idx = 0,
                                                               !.results = <<>>])]
             /\ spend(o)
    /\ UNCHANGED <<env, cachedAuth, drive, docs, overlap>>

\* drive.files.update({fileId, requestBody: {appProperties: {[PROCESS_LABEL_KEY]:
\* "true"}}}): the key is set, the other keys of the file are kept.
setAppProperty(store, id, key, value) ==
    [store EXCEPT ![id].appProperties =
        {p \in @ : p.key # key} \cup {[key |-> key, value |-> value]}]

\* A variant that marks the source file before the document is made.
markFileProcessedFirst(i) ==
    /\ h[i].pc = "tagDownload"
    /\ \E o \in Outcomes(DriveErrors) :
          LET f == logged(h[i], "tagMark", o)
          IN /\ IF o = NoError
                THEN /\ drive' = setAppProperty(drive, file(f).id, PROCESS_LABEL_KEY, "true")
                     /\ h' = [h EXCEPT ![i] = [f EXCEPT !.pc = "tagTranscribe"]]
                ELSE /\ drive' = drive
                     /\ h' = [h EXCEPT ![i] = handlerTagCatch(f, o)]
             /\ spend(o)
    /\ UNCHANGED <<env, cachedAuth, docs, overlap>>

\* buffer = await downloadFileToBuffer(drive, file.id)
downloadFileToBuffer(i) ==
    /\ h[i].pc = "tagDownload"
    /\ \E o \in Outcomes(DriveErrors) :
          LET f == logged(h[i], "tagDownload", o)
          IN /\ h' = [h EXCEPT ![i] = IF o = NoError
                                      THEN [f EXCEPT !.pc = "tagTranscribe"]
                                      ELSE handlerTagCatch(f, o)]
             /\ spend(o)
    /\ UNCHANGED <<env, cachedAuth, drive, docs, overlap>>

\* tResp = await axios.post(".../v1/audio/transcriptions", form, ...);
\* transcriptText = tResp.data.text
handlerTag_transcribe(i) ==
    /\ h[i].pc = "tagTranscribe"
    /\ \E o \in Outcomes(OpenAIErrors) :
          LET f == logged(h[i], "tagTranscribe", o)
          IN IF o # NoError
             THEN h' = [h EXCEPT ![i] = handlerTagCatch(f, o)] /\ spend(o)
             ELSE \E text \in Answers(TranscriptionResponses(file(f).id),
                                      Text(transcriptOf(file(f).id))) :
                     /\ h' = [h EXCEPT ![i] = [f EXCEPT !.transcriptText = text,
                                                        !.pc = "tagSummarize"]]
                     /\ spendIfNot(text, Text(transcriptOf(file(f).id)))
    /\ UNCHANGED <<env, cachedAuth, drive, docs, overlap>>

\* chatResp = await openai.chat.completions.create({...}); summary = ... || ""
handlerTag_summarize(i) ==
    /\ h[i].pc = "tagSummarize"
    /\ \E o \in Outcomes(OpenAIErrors) :
          LET f == logged(h[i], "tagSummarize", o)
          IN IF o # NoError
             THEN h' = [h EXCEPT ![i] = handlerTagCatch(f, o)] /\ spend(o)
             ELSE \E chatResp \in Answers(ChatResponses, UsualChatResponse) :
                     /\ h' = [h EXCEPT ![i] = [f EXCEPT !.summary = summaryOf(chatResp),
                                                        !.pc = "tagDocsCreate"]]
                     /\ spendIfNot(chatResp, UsualChatResponse)
    /\ UNCHANGED <<env, cachedAuth, drive, docs, overlap>>

\* docCreate = await docs.documents.create({requestBody: {title: `Transcript -
\* ${file.name}`}})
handlerTag_docsCreate(i) ==
    /\ h[i].pc = "tagDocsCreate"
    /\ \E o \in Outcomes(DriveErrors) :
          LET f == logged(h[i], "tagDocsCreate", o)
          IN /\ IF o = NoError
                THEN /\ docs' = Append(docs, [title |-> <<"Transcript - ">> \o file(f).name,
                                              parents |-> {Root}, content |-> <<>>,
                                              source |-> file(f).id, by |-> i])
                     /\ h' = [h EXCEPT ![i] = [f EXCEPT !.documentId = Len(docs) + 1,
                                                        !.pc = "tagInsertText"]]
                ELSE /\ docs' = docs
                     /\ h' = [h EXCEPT ![i] = handlerTagCatch(f, o)]
             /\ spend(o)
    /\ UNCHANGED <<env, cachedAuth, drive, overlap>>

\* A variant that writes nothing and fails when the transcript or the summary
\* is empty or missing.
handlerTag_insertTextChecked(i) ==
    /\ h[i].pc = "tagInsertText"
    /\ \E o \in Outcomes(DriveErrors) :
          LET f == logged(h[i], "tagInsertText", o)
          IN /\ IF o = NoError /\ truthy(f.transcriptText) /\ f.summary # <<>>
                THEN /\ docs' = [docs EXCEPT ![f.documentId].content =
                                    insertText(@, insertTextOf(file(f).name, f.summary,
                                                               f.transcriptText))]
                     /\ h' = [h EXCEPT ![i] = [f EXCEPT !.pc = "tagGetParents"]]
                ELSE /\ docs' = docs
                     /\ h' = [h EXCEPT ![i] =
                                handlerTagCatch(f, IF o = NoError
                                                   THEN Error(<<"No text in response">>)
                                                   ELSE o)]
             /\ spend(o)
    /\ UNCHANGED <<env, cachedAuth, drive, overlap>>

\* await docs.documents.batchUpdate({documentId, requestBody: {requests:
\* [{insertText: {location: {index: 1}, text: insertText}}]}})
handlerTag_insertText(i) ==
    /\ h[i].pc = "tagInsertText"
    /\ \E o \in Outcomes(DriveErrors) :
          LET f == logged(h[i], "tagInsertText", o)
          IN /\ IF o = NoError
                THEN /\ docs' = [docs EXCEPT ![f.documentId].content =
                                    insertText(@, insertTextOf(file(f).name, f.summary,
                                                               f.transcriptText))]
                     /\ h' = [h EXCEPT ![i] = [f EXCEPT !.pc = "tagGetParents"]]
                ELSE /\ docs' = docs
                     /\ h' = [h EXCEPT ![i] = handlerTagCatch(f, o)]
             /\ spend(o)
    /\ UNCHANGED <<env, cachedAuth, drive, overlap>>

\* moveFileToFolder: file = await drive.files.get({fileId, fields: "parents"});
\* previousParents = file.data.parents ? file.data.parents.join(",") : ""
moveFileToFolder_get(i) ==
    /\ h[i].pc = "tagGetParents"
    /\ \E o \in Outcomes(DriveErrors) :
          LET f == logged(h[i], "tagGetParents", o)
          IN /\ h' = [h EXCEPT ![i] =
                        IF o = NoError
                        THEN [f EXCEPT !.previousParents = docs[f.documentId].parents,
                                       !.pc = "tagMoveDoc"]
                        ELSE handlerTagCatch(f, o)]
             /\ spend(o)
    /\ UNCHANGED <<env, cachedAuth, drive, docs, overlap>>

\* moveFileToFolder: await drive.files.update({fileId, addParents: folderId,
\* removeParents: previousParents})
moveFileToFolder_update(i) ==
    /\ h[i].pc = "tagMoveDoc"
    /\ \E o \in Outcomes(DriveErrors) :
          LET f == logged(h[i], "tagMoveDoc", o)
          IN /\ IF o = NoError
                THEN /\ docs' \in moveOutcomes(docs, f.documentId, env.OUTPUT_FOLDER_ID,
                                               f.previousParents)
                     /\ h' = [h EXCEPT ![i] = [f EXCEPT !.pc = "tagMark"]]
                ELSE /\ docs' = docs
                     /\ h' = [h EXCEPT ![i] = handlerTagCatch(f, o)]
             /\ spend(o)
    /\ UNCHANGED <<env, cachedAuth, drive, overlap>>

\* await markFileProcessed(drive, file.id);
\* results.push({file: file.name, documentId, durationMs})
markFileProcessed(i) ==
    /\ h[i].pc = "tagMark"
    /\ \E o \in Outcomes(DriveErrors) :
          LET f == logged(h[i], "tagMark", o)
          IN /\ IF o = NoError
                THEN /\ drive' = setAppProperty(drive, file(f).id, PROCESS_LABEL_KEY, "true")
                     /\ h' = [h EXCEPT ![i] =
                                tagNextFile([f EXCEPT !.results = Append(@,
                                    [file |-> file(f).name, documentId |-> f.documentId])])]
                ELSE /\ drive' = drive
                     /\ h' = [h EXCEPT ![i] = handlerTagCatch(f, o)]
             /\ spend(o)
    /\ UNCHANGED <<env, cachedAuth, docs, overlap>>

(***************************************************************************)
(* api/process-drive.js: the earliest variant of the endpoint.  It         *)
(* summarises the transcript, writes the summary into a document in the    *)
(* default location and marks nothing; its loop has no catch of its own.   *)
(***************************************************************************)
\* The awaits of the variant.
LegacyPcs == {"oldList", "oldDownload", "oldTranscribe", "oldSummarize", "oldDocsCreate",
              "oldInsertText"}

\* drive.files.list({q: `'${folderId}' in parents and mimeType contains 'audio'`,
\* fields: "files(id,name)"}): no orderBy, so the files come in some order.
legacyFilesList(store, folderId) ==
    LET ids == {id \in DOMAIN store :
                    folderId \in store[id].parents /\ includes(store[id].mimeType, "audio/")}
    IN {[k \in DOMAIN o |-> [id |-> o[k], name |-> store[o[k]].name]] : o \in Orders(ids)}

\* handler, catch (err): res.status(500).json({error: err.message})
legacyCatch(f, err) == respond(f, 500, [error |-> err.message])

\* The head of the loop, or after it res.status(200).json({message: "Done", results}).
legacyNextFile(f) ==
    IF f.idx < Len(f.files)
    THEN [f EXCEPT !.pc = "oldDownload", !.idx = @ + 1, !.transcriptText = Undefined,
                   !.summary = <<>>, !.documentId = 0]
    ELSE respond(f, 200, [message |-> "Done", results |-> f.results])

\* A request arrives: folderId = process.env.INPUT_FOLDER_ID; if (!folderId)
\* throw; then listAudioFiles awaits its listing.
legacyHandler(i) ==
    /\ h[i].pc = "idle"
    /\ \A j \in Invocations : j < i => h[j].pc # "idle"
    /\ overlap \/ \A j \in Invocations : h[j].pc \in {"idle", "done", "retired"}
    /\ LET frame == IF env.INPUT_FOLDER_ID = ""
                    THEN legacyCatch(h[i], Error(<<"INPUT_FOLDER_ID is niet gezet">>))
                    ELSE [h[i] EXCEPT !.pc = "oldList"]
       IN h' = [j \in Invocations |-> IF j = i THEN frame ELSE retiredTag(h[j])]
    /\ UNCHANGED <<env, cachedAuth, drive, docs, faults, overlap>>

\* files = await listAudioFiles(folderId);
\* if (!files.length) return res.status(200).json({message: "No new files"})
legacy_listAudioFiles(i) ==
    /\ h[i].pc = "oldList"
    /\ \E o \in Outcomes(DriveErrors) :
          LET f == logged(h[i], "oldList", o)
          IN /\ IF o # NoError
                THEN h' = [h EXCEPT ![i] = legacyCatch(f, o)]
                ELSE \E files \in legacyFilesList(drive, env.INPUT_FOLDER_ID) :
                        h' = [h EXCEPT ![i] =
                                IF Len(files) = 0
                                THEN respond(f, 200, [message |-> "No new files"])
                                ELSE legacyNextFile([f EXCEPT !.files = files, !.idx = 0,
                                                              !.results = <<>>])]
             /\ spend(o)
    /\ UNCHANGED <<env, cachedAuth, drive, docs, overlap>>

\* audioBuffer = await downloadFile(file.id)
legacy_downloadFile(i) ==
    /\ h[i].pc = "oldDownload"
    /\ \E o \in Outcomes(DriveErrors) :
          LET f == logged(h[i], "oldDownload", o)
          IN /\ h' = [h EXCEPT ![i] = IF o = NoError
                                      THEN [f EXCEPT !.pc = "oldTranscribe"]
                                      ELSE legacyCatch(f, o)]
             /\ spend(o)
    /\ UNCHANGED <<env, cachedAuth, drive, docs, overlap>>

\* transcription = await openai.audio.transcriptions.create({file, model})
legacy_transcribe(i) ==
    /\ h[i].pc = "oldTranscribe"
    /\ \E o \in Outcomes(OpenAIErrors) :
          LET f == logged(h[i], "oldTranscribe", o)
          IN /\ h' = [h EXCEPT ![i] =
                        IF o = NoError
                        THEN [f EXCEPT !.transcriptText = Text(transcriptOf(file(f).id)),
                                       !.pc = "oldSummarize"]
                        ELSE legacyCatch(f, o)]
             /\ spend(o)
    /\ UNCHANGED <<env, cachedAuth, drive, docs, overlap>>

\* summary = await summarizeText(transcription.text):
\* completion.choices[0].message.content
legacy_summarizeText(i) ==
    /\ h[i].pc = "oldSummarize"
    /\ \E o \in Outcomes(OpenAIErrors) :
          LET f == logged(h[i], "oldSummarize", o)
          IN /\ h' = [h EXCEPT ![i] =
                        IF o = NoError
                        THEN [f EXCEPT !.summary = UsualChatResponse.content.text,
                                       !.pc = "oldDocsCreate"]
                        ELSE legacyCatch(f, o)]
             /\ spend(o)
    /\ UNCHANGED <<env, cachedAuth, drive, docs, overlap>>

\* createDoc: doc = await docs.documents.create({requestBody: {title}}) with
\* title `${file.name} transcript`
legacy_createDoc_create(i) ==
    /\ h[i].pc = "oldDocsCreate"
    /\ \E o \in Outcomes(DriveErrors) :
          LET f == logged(h[i], "oldDocsCreate", o)
          IN /\ IF o = NoError
                THEN /\ docs' = Append(docs, [title |-> file(f).name \o <<" transcript">>,
                                              parents |-> {Root}, content |-> <<>>,
                                              source |-> file(f).id, by |-> i])
                     /\ h' = [h EXCEPT ![i] = [f EXCEPT !.documentId = Len(docs) + 1,
                                                        !.pc = "oldInsertText"]]
                ELSE /\ docs' = docs
                     /\ h' = [h EXCEPT ![i] = legacyCatch(f, o)]
             /\ spend(o)
    /\ UNCHANGED <<env, cachedAuth, drive, overlap>>

\* createDoc: await docs.documents.batchUpdate({documentId, requests: [{insertText:
\* {location: {index: 1}, text: content}}]}); results.push({file: file.name, docId})
legacy_createDoc_batchUpdate(i) ==
    /\ h[i].pc = "oldInsertText"
    /\ \E o \in Outcomes(DriveErrors) :
          LET f == logged(h[i], "oldInsertText", o)
          IN /\ IF o = NoError
                THEN /\ docs' = [docs EXCEPT ![f.documentId].content = insertText(@, f.summary)]
                     /\ h' = [h EXCEPT ![i] =
                                legacyNextFile([f EXCEPT !.results = Append(@,
                                    [file |-> file(f).name, docId |-> f.documentId])])]
                ELSE /\ docs' = docs
                     /\ h' = [h EXCEPT ![i] = legacyCatch(f, o)]
             /\ spend(o)
    /\ UNCHANGED <<env, cachedAuth, drive, overlap>>

(***************************************************************************)
(* Initial states and specifications.                                      *)
(***************************************************************************)
GoodServiceAccount ==
    [kind |-> "json", client_email |-> "sa@project", private_key |-> GoodKey]

GoodEnv ==
    [INPUT_FOLDER_ID |-> InputFolder, OUTPUT_FOLDER_ID |-> OutputFolder,
     PROCESS_LABEL_KEY |-> "",
     GOOGLE_SERVICE_ACCOUNT_JSON |-> GoodServiceAccount]

\* The configurations of a process: the good one, and each way of spoiling it.
Environments ==
    {GoodEnv,
     [GoodEnv EXCEPT !.INPUT_FOLDER_ID = ""],
     [GoodEnv EXCEPT !.OUTPUT_FOLDER_ID = ""]}
    \cup {[GoodEnv EXCEPT !.GOOGLE_SERVICE_ACCOUNT_JSON = sa] : sa \in ServiceAccounts}

\* What a file of the store can be at the start, and the stores of MaxFiles
\* files.  Ids only name the files and order them by age, and listAudioFiles
\* returns files of one kind, so stores that differ by a renaming of the ids
\* are taken once: the kinds in a fixed order along the ids.
FileChoices ==
    <<voiceFile(InputFolder), untypedFile(InputFolder), textFile(InputFolder),
      voiceFile(OtherFolder)>>

Stores(n) ==
    {[id \in 1..n |-> FileChoices[c[id]]] :
        c \in {d \in [1..n -> DOMAIN FileChoices] :
                  \A a, b \in 1..n : a < b => d[a] <= d[b]}}

Init ==
    /\ env \in Environments
    /\ cachedAuth = NoAuth
    /\ drive \in Stores(MaxFiles)
    /\ docs = <<>>
    /\ h = [i \in 1..NumRuns |-> IdleFrame]
    /\ faults = MaxFaults
    /\ overlap = FALSE

Next ==
    \/ \E i \in Invocations, method \in Methods : handler(i, method)
    \/ \E i \in Invocations : handler_folderInfo(i)
    \/ \E i \in Invocations : handler_allFiles(i)
    \/ \E i \in Invocations : listAudioFiles_mimeType(i)
    \/ \E i \in Invocations : listAudioFiles_extension(i)
    \/ \E i \in Invocations : downloadFile(i)
    \/ \E i \in Invocations : transcribeAudio(i)
    \/ \E i \in Invocations : createDoc_driveCreate(i)
    \/ \E i \in Invocations : createDoc_docsCreate(i)
    \/ \E i \in Invocations : createDoc_docMove(i)
    \/ \E i \in Invocations : createDoc_docVerify(i)
    \/ \E i \in Invocations : createDoc_docFix(i)
    \/ \E i \in Invocations : createDoc_insertText(i)
    \/ \E i \in Invocations : moveFileToOutputFolder_get(i)
    \/ \E i \in Invocations : moveFileToOutputFolder_update(i)

Spec == Init /\ [][Next]_vars

\* Two requests served interleaved, as a host that runs requests concurrently
\* serves them.
Racers == {1, 2}

InitRace ==
    /\ env = GoodEnv
    /\ cachedAuth = NoAuth
    /\ drive = [id \in 1..RaceFiles |-> voiceFile(InputFolder)]
    /\ docs = <<>>
    /\ h = [i \in Racers |-> IdleFrame]
    /\ faults = RaceFaults
    /\ overlap = TRUE

SpecRace == InitRace /\ [][Next]_vars

\* Two requests served one after the other, on a store of audio files in the
\* input folder, under the two ways of setting the folder ids that pass the
\* checks of the handler: two folders, or the same folder twice.
TwoRuns == {1, 2}

FolderEnvironments == {GoodEnv, [GoodEnv EXCEPT !.OUTPUT_FOLDER_ID = InputFolder]}

InitFolders ==
    /\ env \in FolderEnvironments
    /\ cachedAuth = NoAuth
    /\ drive = [id \in 1..FolderFiles |-> voiceFile(InputFolder)]
    /\ docs = <<>>
    /\ h = [i \in TwoRuns |-> IdleFrame]
    /\ faults = FolderFaults
    /\ overlap = FALSE

SpecFolders == InitFolders /\ [][Next]_vars

\* A single request, for what concerns one pass of the handler: every
\* configuration, every store, every placement of the failures.
InitSolo ==
    /\ env \in Environments
    /\ cachedAuth = NoAuth
    /\ drive \in Stores(SoloFiles)
    /\ docs = <<>>
    /\ h = [i \in {1} |-> IdleFrame]
    /\ faults = SoloFaults
    /\ overlap = FALSE

SpecSolo == InitSolo /\ [][Next]_vars

\* A single request on one audio file with enough failures for the direct
\* creation, the follow-up move and the corrective move of a document to fail
\* in the same pass.
InitPlacement ==
    /\ env = GoodEnv
    /\ cachedAuth = NoAuth
    /\ drive \in {[id \in {1} |-> voiceFile(InputFolder)],
                  [id \in {1} |-> untypedFile(InputFolder)]}
    /\ docs = <<>>
    /\ h = [i \in {1} |-> IdleFrame]
    /\ faults = PlacementFaults
    /\ overlap = FALSE

SpecPlacement == InitPlacement /\ [][Next]_vars

\* The same single request, with the assumption under which it can be said to
\* end: every call the handler awaits returns, with a result or with an error.
Returns ==
    \E i \in Invocations :
        \/ handler_folderInfo(i) \/ handler_allFiles(i)
        \/ listAudioFiles_mimeType(i) \/ listAudioFiles_extension(i)
        \/ downloadFile(i) \/ transcribeAudio(i)
        \/ createDoc_driveCreate(i) \/ createDoc_docsCreate(i) \/ createDoc_docMove(i)
        \/ createDoc_docVerify(i) \/ createDoc_docFix(i) \/ createDoc_insertText(i)
        \/ moveFileToOutputFolder_get(i) \/ moveFileToOutputFolder_update(i)

SpecSoloLive == InitSolo /\ [][Next]_vars /\ WF_vars(Returns)

\* One request on an input folder that holds more files than one page of a
\* listing, every remote call succeeding.  The three actions left out of NextBulk
\* are the ones that only follow a failed call.
InitBulk ==
    /\ env = GoodEnv
    /\ cachedAuth = NoAuth
    /\ drive \in {[id \in 1..BulkFiles |-> voiceFile(InputFolder)],
                  [id \in 1..BulkFiles |-> untypedFile(InputFolder)]}
    /\ docs = <<>>
    /\ h = [i \in 1..1 |-> IdleFrame]
    /\ faults = 0
    /\ overlap = FALSE

NextBulk ==
    \/ \E i \in Invocations, method \in Methods : handler(i, method)
    \/ \E i \in Invocations : handler_folderInfo(i)
    \/ \E i \in Invocations : handler_allFiles(i)
    \/ \E i \in Invocations : listAudioFiles_mimeType(i)
    \/ \E i \in Invocations : listAudioFiles_extension(i)
    \/ \E i \in Invocations : downloadFile(i)
    \/ \E i \in Invocations : transcribeAudio(i)
    \/ \E i \in Invocations : createDoc_driveCreate(i)
    \/ \E i \in Invocations : createDoc_docVerify(i)
    \/ \E i \in Invocations : createDoc_insertText(i)
    \/ \E i \in Invocations : moveFileToOutputFolder_get(i)
    \/ \E i \in Invocations : moveFileToOutputFolder_update(i)

SpecBulk == InitBulk /\ [][NextBulk]_vars

\* The tagging variant: two requests served one after the other, on a store whose
\* files carry no marker, the marker, the key with another value, or another
\* key, under the default key and under a configured one.
TagEnvironments == {GoodEnv, [GoodEnv EXCEPT !.PROCESS_LABEL_KEY = "done_by_tool"]}

TagProperties ==
    <<{}, {[key |-> "processed_by_automation", value |-> "true"]},
      {[key |-> "processed_by_automation", value |-> "false"]},
      {[key |-> "done_by_tool", value |-> "true"]}>>

TagStores(n) ==
    {[id \in 1..n |-> [voiceFile(InputFolder) EXCEPT !.appProperties = TagProperties[c[id]]]] :
        c \in {d \in [1..n -> DOMAIN TagProperties] :
                  \A a, b \in 1..n : a < b => d[a] <= d[b]}}

InitTag ==
    /\ env \in TagEnvironments
    /\ cachedAuth = NoAuth
    /\ drive \in TagStores(TagFiles)
    /\ docs = <<>>
    /\ h = [i \in TwoRuns |-> IdleFrame]
    /\ faults = TagFaults
    /\ overlap = FALSE

NextTag ==
    \/ \E i \in Invocations : handlerTag(i)
    \/ \E i \in Invocations : listUnprocessedMp3s(i)
    \/ \E i \in Invocations : downloadFileToBuffer(i)
    \/ \E i \in Invocations : handlerTag_transcribe(i)
    \/ \E i \in Invocations : handlerTag_summarize(i)
    \/ \E i \in Invocations : handlerTag_docsCreate(i)
    \/ \E i \in Invocations : handlerTag_insertText(i)
    \/ \E i \in Invocations : moveFileToFolder_get(i)
    \/ \E i \in Invocations : moveFileToFolder_update(i)
    \/ \E i \in Invocations : markFileProcessed(i)

SpecTag == InitTag /\ [][NextTag]_vars

\* One request served by either variant of the endpoint, for what must hold of
\* every variant: the stores and the configurations of both.
InitVariants ==
    /\ env \in TagEnvironments
    /\ cachedAuth = NoAuth
    /\ drive \in Stores(VariantFiles) \cup TagStores(VariantFiles)
    /\ docs = <<>>
    /\ h = [i \in {1} |-> IdleFrame]
    /\ faults = VariantFaults
    /\ overlap = FALSE

NextVariants == Next \/ NextTag

SpecVariants == InitVariants /\ [][NextVariants]_vars

\* Requests in a row to the primary handler, on every configuration of the
\* credentials, with one file in the input folder.
InitCredentials ==
    /\ env \in Environments
    /\ cachedAuth = NoAuth
    /\ drive = [id \in {1} |-> voiceFile(InputFolder)]
    /\ docs = <<>>
    /\ h = [i \in 1..CredentialRuns |-> IdleFrame]
    /\ faults = CredentialFaults
    /\ overlap = FALSE

SpecCredentials == InitCredentials /\ [][Next]_vars

\* One request served by one of the two older variants (the tagging one, or
\* the earliest one), on the stores of both.
NextLegacy ==
    \/ \E i \in Invocations : legacyHandler(i)
    \/ \E i \in Invocations : legacy_listAudioFiles(i)
    \/ \E i \in Invocations : legacy_downloadFile(i)
    \/ \E i \in Invocations : legacy_transcribe(i)
    \/ \E i \in Invocations : legacy_summarizeText(i)
    \/ \E i \in Invocations : legacy_createDoc_create(i)
    \/ \E i \in Invocations : legacy_createDoc_batchUpdate(i)

InitOlder ==
    /\ env \in TagEnvironments \cup {[GoodEnv EXCEPT !.INPUT_FOLDER_ID = ""]}
    /\ cachedAuth = NoAuth
    /\ drive \in Stores(OlderFiles) \cup TagStores(OlderFiles)
    /\ docs = <<>>
    /\ h = [i \in {1} |-> IdleFrame]
    /\ faults = OlderFaults
    /\ overlap = FALSE

NextOlder == NextTag \/ NextLegacy

SpecOlder == InitOlder /\ [][NextOlder]_vars

(***************************************************************************)
(* What the claims speak about.                                            *)
(***************************************************************************)
listedIds(f) == {f.files[k].id : k \in DOMAIN f.files}

\* The call op, made for file fileId (0: for no file), returned as ok says.
returned(f, op, fileId, ok) ==
    \E n \in DOMAIN f.calls : f.calls[n] = [op |-> op, fileId |-> fileId, ok |-> ok]

\* The calls whose failure leaves a step of the loop body as an error.
RaisingOps == {"download", "transcribe", "docsCreate", "insertText", "getParents", "moveFile"}

stepRaised(f, k) ==
    \E n \in DOMAIN f.calls :
        /\ ~f.calls[n].ok
        /\ f.calls[n].fileId = f.files[k].id
        /\ f.calls[n].op \in RaisingOps

failedCalls(f) == {n \in DOMAIN f.calls : ~f.calls[n].ok}

\* discovery of request j returns in this step (it did not throw)
discoveryReturns(j) ==
    /\ h[j].pc \in {"listMime", "listExt"}
    /\ h'[j].pc # h[j].pc
    /\ h'[j].res.status # 500

queryAt(pc) == IF pc = "listMime" THEN "mimeType" ELSE "extension"

documentsOf(fileId) == {d \in DOMAIN docs : docs[d].source = fileId}

(***************************************************************************)
(* C1: whenever a step of a file's pass raises an error, the handler       *)
(* appends an entry with status "error" and the message for that file and  *)
(* goes on to the next file; the loop never ends early and the response is *)
(* never a 500.                                                            *)
(***************************************************************************)
C1_FileFailureIsolated ==
    \A i \in Invocations :
        LET f == h[i] IN
        /\ \A k \in DOMAIN f.files :
              stepRaised(f, k) =>
                  /\ k <= Len(f.results)
                  /\ f.results[k].status = "error"
                  /\ f.results[k].fileId = f.files[k].id
                  /\ Len(f.results[k].error) > 0
                  /\ f.res.status \in {0, 200}
                  /\ IF k < Len(f.files)
                     THEN f.idx > k
                     ELSE f.pc = "done" /\ f.res.status = 200
        /\ f.pc = "done" /\ Len(f.files) > 0 =>
              /\ f.res.status = 200
              /\ Len(f.results) = Len(f.files)

\* The first of two files failed, the second was still processed to success.
C1_Witness ==
    \E i \in Invocations :
        /\ Len(h[i].files) = 2
        /\ stepRaised(h[i], 1)
        /\ h[i].pc = "done"
        /\ h[i].results[2].status = "success"

(***************************************************************************)
(* C2: a run that discovered N >= 1 files answers 200 with exactly one     *)
(* entry per discovered file, in discovery order, and processed + failed   *)
(* = N, whatever succeeded and failed.                                     *)
(***************************************************************************)
C2_OneEntryPerFile ==
    \A i \in Invocations :
        LET f == h[i] IN
        f.pc = "done" /\ Len(f.files) >= 1 =>
            /\ f.res.status = 200
            /\ Len(f.res.body.results) = Len(f.files)
            /\ \A k \in DOMAIN f.files :
                  /\ f.res.body.results[k].fileId = f.files[k].id
                  /\ f.res.body.results[k].status \in {"success", "error"}
            /\ f.res.body.processed =
                  Cardinality({k \in DOMAIN f.files : f.res.body.results[k].status = "success"})
            /\ f.res.body.failed =
                  Cardinality({k \in DOMAIN f.files : f.res.body.results[k].status = "error"})
            /\ f.res.body.processed + f.res.body.failed = Len(f.files)

\* A report of two files, one of each status.
C2_Witness ==
    \E i \in Invocations :
        /\ h[i].pc = "done"
        /\ Len(h[i].files) = 2
        /\ h[i].res.body.processed = 1
        /\ h[i].res.body.failed = 1

(***************************************************************************)
(* C3: when every call of a run over N files succeeded, processed = N,     *)
(* failed = 0 and each of the N entries is a "success" carrying the id of  *)
(* the document created for its file and the viewer URL built from it.     *)
(***************************************************************************)
C3_AllSucceed ==
    \A i \in Invocations :
        LET f == h[i] IN
        f.pc = "done" /\ Len(f.files) >= 1 /\ failedCalls(f) = {} =>
            /\ f.res.status = 200
            /\ f.res.body.processed = Len(f.files)
            /\ f.res.body.failed = 0
            /\ Len(f.res.body.results) = Len(f.files)
            /\ \A k \in DOMAIN f.files :
                  LET r == f.res.body.results[k] IN
                  /\ r.status = "success"
                  /\ r.fileId = f.files[k].id
                  /\ r.fileName = f.files[k].name
                  /\ r.docId \in DOMAIN docs
                  /\ docs[r.docId].source = r.fileId
                  /\ docs[r.docId].by = i
                  /\ r.docUrl = <<"https://docs.google.com/document/d/", ToString(r.docId)>>

\* A run over two files in which nothing failed.
C3_Witness ==
    \E i \in Invocations :
        /\ h[i].pc = "done"
        /\ Len(h[i].files) = 2
        /\ failedCalls(h[i]) = {}

(***************************************************************************)
(* C4: when the transcription of exactly one file fails and nothing else   *)
(* does, that file's entry alone is an "error", its step is the Step 2     *)
(* label, and every other file is a "success" with a docUrl.               *)
(***************************************************************************)
C4_TranscriptionFailureIsStep2 ==
    \A i \in Invocations :
        LET f == h[i] IN
        \A k \in DOMAIN f.files :
            (/\ f.pc = "done"
             /\ Cardinality(failedCalls(f)) = 1
             /\ returned(f, "transcribe", f.files[k].id, FALSE)) =>
                /\ f.results[k].status = "error"
                /\ f.results[k].step = "Step 2: Transcribing audio"
                /\ \A m \in DOMAIN f.files \ {k} :
                      /\ f.results[m].status = "success"
                      /\ Len(f.results[m].docUrl) > 0

(***************************************************************************)
(* C5: when discovery returns no file, the handler answers 200 at once     *)
(* with the "No new audio files found" message and results = [], without   *)
(* any download, transcription, document or move call, and the body has no *)
(* processed or failed count and is no error.                              *)
(***************************************************************************)
C5_EmptyDiscovery ==
    \A i \in Invocations :
        LET f == h[i] IN
        returned(f, "listExt", 0, TRUE) /\ Len(f.files) = 0 =>
            /\ f.pc = "done"
            /\ f.res.status = 200
            /\ f.res.body.message = "No new audio files found in input folder"
            /\ f.res.body.results = <<>>
            /\ DOMAIN f.res.body \cap {"processed", "failed", "error"} = {}
            /\ \A n \in DOMAIN f.calls : f.calls[n].op \notin FilePcs
            /\ \A d \in DOMAIN docs : docs[d].by # i

\* Discovery came back empty from a folder that holds a file.
C5_Witness ==
    \E i \in Invocations :
        /\ returned(h[i], "listExt", 0, TRUE)
        /\ Len(h[i].files) = 0
        /\ \E id \in DOMAIN drive : env.INPUT_FOLDER_ID \in drive[id].parents

(***************************************************************************)
(* C6: with the requests served one after the other and nothing else       *)
(* changing the store, a file an earlier run reported as "success" (its    *)
(* move to the output folder succeeded) is not returned by the discovery   *)
(* of a later run.                                                         *)
(***************************************************************************)
C6_MovedFileNotRediscovered ==
    \A i, j \in Invocations :
        i < j => successIds(h[i]) \cap listedIds(h[j]) = {}

\* C6 as it holds: the same, for a configuration whose output folder is not the
\* input folder (the handler only checks that both ids are set).
C6_MovedFileNotRediscoveredTwoFolders ==
    env.INPUT_FOLDER_ID # env.OUTPUT_FOLDER_ID =>
        \A i, j \in Invocations :
            i < j => \A id \in successIds(h[i]) : id \notin listedIds(h[j])

\* A second run has listed the folder after a first one moved a file out of it,
\* and still found a file to process.
C6_Witness ==
    \E i, j \in Invocations :
        /\ i < j
        /\ env.INPUT_FOLDER_ID # env.OUTPUT_FOLDER_ID
        /\ successIds(h[i]) # {}
        /\ returned(h[j], "listMime", 0, TRUE)
        /\ Len(h[j].files) >= 1

(***************************************************************************)
(* C7: when a file's document was created and filled and the move of the   *)
(* file then fails, the file's entry is an "error", the file is still in   *)
(* the input folder and the document is still in the store with its text;  *)
(* and a discovery never leaves out a file of the input folder that        *)
(* matches its query because a document already exists for it, so the next *)
(* run processes the file again.                                           *)
(***************************************************************************)
completionFailed(f, k) ==
    /\ returned(f, "insertText", f.files[k].id, TRUE)
    /\ \/ returned(f, "getParents", f.files[k].id, FALSE)
       \/ returned(f, "moveFile", f.files[k].id, FALSE)

C7_DocumentKeptFileLeft ==
    \A i \in Invocations :
        LET f == h[i] IN
        \A k \in DOMAIN f.files :
            completionFailed(f, k) =>
                /\ f.results[k].status = "error"
                /\ env.INPUT_FOLDER_ID \in drive[f.files[k].id].parents
                /\ \E d \in documentsOf(f.files[k].id) :
                      /\ docs[d].by = i
                      /\ docs[d].content = transcriptOf(f.files[k].id)

C7_TranscribedFileListedAgain ==
    \A j \in Invocations :
        discoveryReturns(j) =>
            \A id \in DOMAIN drive :
                (/\ documentsOf(id) # {}
                 /\ env.INPUT_FOLDER_ID \in drive[id].parents
                 /\ matches(queryAt(h[j].pc), drive[id])) =>
                    id \in listedIds(h'[j])

C7_AtLeastOnce == [](C7_DocumentKeptFileLeft) /\ [][C7_TranscribedFileListedAgain]_vars

\* Two filled documents of two runs for one source file.
C7_Witness ==
    \E d1, d2 \in DOMAIN docs :
        /\ docs[d1].source = docs[d2].source
        /\ docs[d1].by < docs[d2].by
        /\ docs[d1].content # <<>>
        /\ docs[d2].content # <<>>
        /\ h[docs[d2].by].pc = "done"
        /\ h[docs[d2].by].results[1].status = "success"

(***************************************************************************)
(* C8: a run reports every qualifying audio file that is in the input      *)
(* folder at discovery, however many there are: after the report no file   *)
(* matching the query that produced the list is in the input folder        *)
(* without an entry.                                                       *)
(***************************************************************************)
C8_EveryPendingFileReported ==
    \A i \in Invocations :
        LET f == h[i] IN
        f.pc = "done" /\ Len(f.files) >= 1 =>
            \A id \in DOMAIN drive :
                (/\ env.INPUT_FOLDER_ID \in drive[id].parents
                 /\ IF mimeTypeQuery(f.files[1])
                    THEN mimeTypeQuery(drive[id])
                    ELSE extensionQuery(drive[id])) =>
                    \E k \in DOMAIN f.results : f.results[k].fileId = id

(***************************************************************************)
(* C9: overlapping requests are not serialized.  A discovery returns every *)
(* file of the input folder that matches its query, also a file another    *)
(* request has listed and is still processing: there is no claim step.     *)
(***************************************************************************)
C9_NoClaimStep ==
    [][\A i, j \in Invocations :
          (i # j /\ discoveryReturns(i) /\ h[j].pc \in FilePcs) =>
              \A id \in listedIds(h[j]) :
                  (/\ env.INPUT_FOLDER_ID \in drive[id].parents
                   /\ matches(queryAt(h[i].pc), drive[id])) =>
                      id \in listedIds(h'[i])]_vars

\* Both requests listed the same file and each created a document for it.
C9_Witness ==
    \E i, j \in Invocations :
        /\ i # j
        /\ \E id \in listedIds(h[i]) \cap listedIds(h[j]) :
              \E d1, d2 \in documentsOf(id) : docs[d1].by = i /\ docs[d2].by = j

(***************************************************************************)
(* C10: an error raised before the loop (a folder id missing from the      *)
(* configuration, the credentials, the folder lookup, the listing of the   *)
(* folder, discovery) ends the run with a 500 that carries an error        *)
(* message and no results; no file was downloaded, transcribed, written or *)
(* moved.                                                                  *)
(***************************************************************************)
badConfiguration ==
    \/ env.INPUT_FOLDER_ID = ""
    \/ env.OUTPUT_FOLDER_ID = ""
    \/ ~getAuth(NoAuth, env.GOOGLE_SERVICE_ACCOUNT_JSON).ok

C10_SetupFailureAborts ==
    \A i \in Invocations :
        LET f == h[i] IN
        /\ (\E n \in DOMAIN f.calls : ~f.calls[n].ok /\ f.calls[n].op \in SetupPcs) =>
              f.pc = "done" /\ f.res.status = 500
        /\ badConfiguration =>
              /\ f.pc \in {"idle", "done", "retired"}
              /\ f.res.status \in {0, 200, 405, 500}
              /\ f.res.status = 200 => DOMAIN f.res = {"status"}
        /\ f.pc = "done" /\ f.res.status = 500 =>
              /\ DOMAIN f.res.body = {"error"}
              /\ Len(f.res.body.error) > 0
              /\ f.files = <<>>
              /\ f.results = <<>>
              /\ \A n \in DOMAIN f.calls : f.calls[n].op \in SetupPcs
              /\ \A d \in DOMAIN docs : docs[d].by # i

\* Discovery itself threw, in a folder that holds an audio file.
C10_Witness ==
    \E i \in Invocations :
        /\ returned(h[i], "listMime", 0, FALSE)
        /\ h[i].res.status = 500
        /\ \E id \in DOMAIN drive :
              env.INPUT_FOLDER_ID \in drive[id].parents /\ mimeTypeQuery(drive[id])

(***************************************************************************)
(* C11: an OPTIONS request is answered 200 without a body, a method other  *)
(* than GET, POST and OPTIONS is answered 405 with {"error": "Method not   *)
(* allowed"}; neither issues a remote call or touches the stores or the    *)
(* credential handle; and a request takes the same step as GET and as POST.*)
(***************************************************************************)
gateLeavesAlone(i) ==
    /\ h'[i].pc = "done"
    /\ h'[i].calls = <<>>
    /\ h'[i].files = <<>>
    /\ h'[i].results = <<>>
    /\ UNCHANGED <<drive, docs, cachedAuth, faults>>

C11_GateStep ==
    \A i \in Invocations :
        /\ handler(i, "OPTIONS") =>
              h'[i].res = [status |-> 200] /\ gateLeavesAlone(i)
        /\ \A method \in Methods \ {"GET", "POST", "OPTIONS"} :
              handler(i, method) =>
                  /\ h'[i].res = [status |-> 405, body |-> [error |-> "Method not allowed"]]
                  /\ gateLeavesAlone(i)
        /\ handler(i, "GET") <=> handler(i, "POST")

C11_Answered ==
    \A i \in Invocations :
        h[i].pc = "done" /\ (h[i].res.status = 405 \/ DOMAIN h[i].res = {"status"}) =>
            /\ h[i].calls = <<>>
            /\ \A d \in DOMAIN docs : docs[d].by # i

C11_MethodGate == [](C11_Answered) /\ [][C11_GateStep]_vars

\* One request was refused with 405 and the next, a preflight, answered 200
\* without a body, with an audio file waiting in the input folder.
C11_Witness ==
    \E i, j \in Invocations :
        /\ h[i].res.status = 405
        /\ h[j].pc = "done"
        /\ h[j].res = [status |-> 200]
        /\ \E id \in DOMAIN drive :
              env.INPUT_FOLDER_ID \in drive[id].parents /\ mimeTypeQuery(drive[id])

(***************************************************************************)
(* C12: in a run that discovered one file, when the transcription service  *)
(* rejects the request with 401, the response is the 200 report with one   *)
(* entry: status "error", a message with the remediation text about the    *)
(* API key, step "Step 2"; no document was created and the file is where   *)
(* it was.                                                                 *)
(***************************************************************************)
Unauthorized == CHOOSE e \in OpenAIErrors : e.status = 401

\* The entry carries the message of the service's 401 answer.
rejected401(entry) ==
    /\ entry.status = "error"
    /\ \A n \in DOMAIN Unauthorized.message : includes(entry.error, Unauthorized.message[n])

C12_Unauthorized ==
    \A i \in Invocations :
        LET f == h[i] IN
        (/\ f.pc = "done"
         /\ Len(f.files) = 1
         /\ returned(f, "transcribe", f.files[1].id, FALSE)
         /\ rejected401(f.results[1])) =>
            /\ f.res.status = 200
            /\ f.res.body.processed = 0
            /\ f.res.body.failed = 1
            /\ Len(f.res.body.results) = 1
            /\ f.res.body.results[1].fileId = f.files[1].id
            /\ includes(f.res.body.results[1].error, "API key")
            /\ \E n \in DOMAIN f.res.body.results[1].error :
                  f.res.body.results[1].error[n] =
                      " To fix this: update the OPENAI_API_KEY variable. Make sure the "
            /\ f.res.body.results[1].step = "Step 2: Transcribing audio"
            /\ documentsOf(f.files[1].id) = {}
            /\ docs = <<>>
            /\ drive[f.files[1].id].parents = {env.INPUT_FOLDER_ID}

C12_Witness ==
    \E i \in Invocations :
        /\ h[i].pc = "done"
        /\ Len(h[i].files) = 1
        /\ returned(h[i], "transcribe", h[i].files[1].id, FALSE)
        /\ rejected401(h[i].results[1])

(***************************************************************************)
(* C13: the credential handle is built at most once per process.  Once     *)
(* cachedAuth is set, getAuth, getDriveClient and getDocsClient return it  *)
(* whatever the configuration says at that moment (they do not look at     *)
(* it), it is never replaced, and every request that is past its entry, in *)
(* any interleaving with the others, finds it set.                         *)
(***************************************************************************)
C13_CachedHandleReturned ==
    cachedAuth.set =>
        \A sa \in ServiceAccounts :
            LET same == [ok |-> TRUE, cached |-> cachedAuth, error |-> NoError]
            IN /\ getAuth(cachedAuth, sa) = same
               /\ getDriveClient(cachedAuth, sa) = same
               /\ getDocsClient(cachedAuth, sa) = same

C13_HelpersFindHandle ==
    \A i \in Invocations : h[i].pc \in SetupPcs \cup FilePcs => cachedAuth.set

C13_NeverRebuilt == cachedAuth.set => cachedAuth' = cachedAuth

C13_BuiltOnce ==
    /\ [](C13_CachedHandleReturned /\ C13_HelpersFindHandle)
    /\ [][C13_NeverRebuilt]_vars

\* Two requests are in the pipeline at once, the second entered on the handle
\* the first one built.
C13_Witness ==
    /\ cachedAuth.set
    /\ \E i, j \in Invocations :
          /\ i # j
          /\ h[i].pc \in FilePcs
          /\ h[j].pc \in SetupPcs \cup FilePcs

(***************************************************************************)
(* C14: getAuth throws, and leaves no handle, when the configuration is    *)
(* absent, is not parseable, lacks client_email, lacks private_key, or     *)
(* when the key, after the escaped newlines were replaced, lacks a BEGIN   *)
(* or an END marker; it builds a handle only when none of these holds,    *)
(* and then whenever the client library accepts the key.                   *)
(***************************************************************************)
configurationBad(sa) ==
    \/ sa.kind = "unset"
    \/ sa.kind = "malformed"
    \/ sa.client_email = ""
    \/ sa.private_key = <<>>
    \/ ~\E n \in DOMAIN sa.private_key : sa.private_key[n] = "BEGIN"
    \/ ~\E n \in DOMAIN sa.private_key : sa.private_key[n] = "END"

C14_GetAuthChecks ==
    LET sa == env.GOOGLE_SERVICE_ACCOUNT_JSON
        first == getAuth(NoAuth, sa)
    IN /\ configurationBad(sa) =>
              /\ ~first.ok
              /\ first.cached = NoAuth
              /\ Len(first.error.message) > 0
              /\ cachedAuth = NoAuth
              /\ \A i \in Invocations : h[i].pc \notin SetupPcs \cup FilePcs
       /\ (~configurationBad(sa) /\ JWT(sa.client_email, unescapeNewlines(sa.private_key)).ok) =>
              /\ first.ok
              /\ first.error = NoError
              /\ first.cached.set
              /\ first.cached.email = sa.client_email
              /\ ~\E n \in DOMAIN first.cached.key : first.cached.key[n] = "\\n"
       /\ cachedAuth.set => ~configurationBad(sa) /\ cachedAuth = first.cached

\* A request was made with a key that has a BEGIN but no END marker, and was
\* answered 500 with no handle left behind.
C14_Witness ==
    LET sa == env.GOOGLE_SERVICE_ACCOUNT_JSON IN
    /\ sa.kind = "json"
    /\ \E n \in DOMAIN sa.private_key : sa.private_key[n] = "BEGIN"
    /\ ~\E n \in DOMAIN sa.private_key : sa.private_key[n] = "END"
    /\ cachedAuth = NoAuth
    /\ \E i \in Invocations :
          /\ h[i].pc = "done"
          /\ h[i].res.status = 500
          /\ h[i].res.body.error = <<"Private key format appears to be incorrect.">>

(***************************************************************************)
(* C15: with a target folder createDoc first makes one attempt to create   *)
(* the document inside the target folder; only when that attempt failed    *)
(* does it create the document in the default location, and then it issues *)
(* the follow-up move; the creation phase raises only when both attempts   *)
(* failed, which is when no document exists.                               *)
(***************************************************************************)
\* The positions in the log of f of the calls op made for file fileId.
callsAt(f, op, fileId) ==
    {n \in DOMAIN f.calls : f.calls[n].op = op /\ f.calls[n].fileId = fileId}

AfterCreationOps == {"docVerify", "docFix", "insertText", "getParents", "moveFile"}

C15_FallbackChain ==
    \A i \in Invocations :
        LET f == h[i] IN
        \A k \in DOMAIN f.files :
            LET id == f.files[k].id
                direct == callsAt(f, "driveCreate", id)
                fallback == callsAt(f, "docsCreate", id)
                followUp == callsAt(f, "docMove", id)
                passed == \E n \in DOMAIN f.calls :
                              f.calls[n].fileId = id /\ f.calls[n].op \in AfterCreationOps
                mine == {d \in documentsOf(id) : docs[d].by = i}
            IN /\ Cardinality(direct) <= 1
               /\ Cardinality(fallback) <= 1
               /\ Cardinality(followUp) <= 1
               /\ \A n \in fallback :
                     n - 1 \in direct /\ ~f.calls[n - 1].ok
               /\ \A n \in followUp :
                     n - 1 \in fallback /\ f.calls[n - 1].ok
               /\ returned(f, "driveCreate", id, TRUE) => fallback = {} /\ followUp = {}
               /\ returned(f, "driveCreate", id, FALSE) =>
                     fallback # {} \/ (f.idx = k /\ f.pc = "docsCreate")
               /\ returned(f, "docsCreate", id, TRUE) =>
                     followUp # {} \/ (f.idx = k /\ f.pc = "docMove")
               /\ passed => direct # {}
               /\ passed =>
                     returned(f, "driveCreate", id, TRUE) \/ returned(f, "docsCreate", id, TRUE)
               /\ (returned(f, "driveCreate", id, FALSE) /\ returned(f, "docsCreate", id, FALSE))
                     <=> (/\ direct # {}
                          /\ ~passed
                          /\ k <= Len(f.results)
                          /\ f.results[k].status = "error")
               /\ (returned(f, "driveCreate", id, FALSE) /\ returned(f, "docsCreate", id, FALSE))
                     => mine = {}
               /\ (returned(f, "driveCreate", id, TRUE) \/ returned(f, "docsCreate", id, TRUE))
                     <=> Cardinality(mine) = 1
               /\ returned(f, "driveCreate", id, TRUE) =>
                     \A d \in mine : docs[d].parents = {env.OUTPUT_FOLDER_ID}

\* The direct creation failed, the fallback and its follow-up move succeeded,
\* and the file went on to a success entry.
C15_Witness ==
    \E i \in Invocations :
        \E k \in DOMAIN h[i].files :
            /\ returned(h[i], "driveCreate", h[i].files[k].id, FALSE)
            /\ returned(h[i], "docsCreate", h[i].files[k].id, TRUE)
            /\ returned(h[i], "docMove", h[i].files[k].id, TRUE)
            /\ k <= Len(h[i].results)
            /\ h[i].results[k].status = "success"

(***************************************************************************)
(* C16: the text is inserted by a call of its own, made once, only after   *)
(* the document exists and its place was looked at; when that call fails   *)
(* the document stays in the store, empty, createDoc raises, the file's    *)
(* entry is an "error" and the source file is not moved.                   *)
(***************************************************************************)
C16_InsertionFailureLeavesDocument ==
    \A i \in Invocations :
        LET f == h[i] IN
        \A k \in DOMAIN f.files :
            LET id == f.files[k].id
                insertion == callsAt(f, "insertText", id)
                mine == {d \in documentsOf(id) : docs[d].by = i}
            IN /\ Cardinality(insertion) <= 1
               /\ \A n \in insertion :
                     /\ \E m \in 1..(n - 1) :
                           /\ f.calls[m].fileId = id
                           /\ f.calls[m].op \in {"driveCreate", "docsCreate"}
                           /\ f.calls[m].ok
                     /\ n - 1 \in callsAt(f, "docVerify", id) \cup callsAt(f, "docFix", id)
                     /\ callsAt(f, "docVerify", id) # {}
                     /\ Cardinality(mine) = 1
               /\ returned(f, "insertText", id, FALSE) =>
                     /\ k <= Len(f.results)
                     /\ f.results[k].status = "error"
                     /\ Len(f.results[k].error) > 0
                     /\ \A d \in mine : docs[d].content = <<>>
                     /\ callsAt(f, "getParents", id) = {}
                     /\ callsAt(f, "moveFile", id) = {}
                     /\ drive[id].parents = {env.INPUT_FOLDER_ID}

\* The insertion failed for a file and the run went on to its report.
C16_Witness ==
    \E i \in Invocations :
        /\ h[i].pc = "done"
        /\ \E k \in DOMAIN h[i].files :
              /\ returned(h[i], "insertText", h[i].files[k].id, FALSE)
              /\ \E d \in documentsOf(h[i].files[k].id) : docs[d].content = <<>>

(***************************************************************************)
(* C17: completion by move replaces the parent association.  After the     *)
(* update of moveFileToOutputFolder succeeds the source file's parents are *)
(* exactly the output folder: every parent read beforehand is gone, the    *)
(* destination is there, no other file is touched.  When the parent lookup *)
(* or the update fails the parents of every file are as before.            *)
(***************************************************************************)
\* What must hold of a file's parents after a successful update: they are the
\* output folder alone; unlessSame leaves open the case of an output folder that
\* was among the parents read beforehand.
replaced(previous, now, unlessSame) ==
    IF unlessSame /\ env.OUTPUT_FOLDER_ID \in previous
    THEN TRUE
    ELSE now = {env.OUTPUT_FOLDER_ID}

\* What a step of request i at its parent lookup or update does to the store.
moveStep(i, unlessSame) ==
    LET f == h[i]
        id == file(f).id
        succeeded == faults' = faults
    IN /\ (f.pc = "getParents" /\ h'[i] # f) =>
              /\ drive' = drive
              /\ succeeded => h'[i].previousParents = drive[id].parents
       /\ (f.pc = "moveFile" /\ h'[i] # f) =>
              IF succeeded
              THEN /\ replaced(f.previousParents, drive'[id].parents, unlessSame)
                   /\ \A other \in DOMAIN drive \ {id} : drive'[other] = drive[other]
                   /\ drive'[id].name = drive[id].name
                   /\ h'[i].results[Len(h'[i].results)].status = "success"
              ELSE /\ drive' = drive
                   /\ h'[i].results[Len(h'[i].results)].status = "error"

stepOf(op) ==
    CASE op = "download" -> "Step 1: Downloading file"
      [] op = "transcribe" -> "Step 2: Transcribing audio"
      [] op \in {"driveCreate", "docsCreate", "docMove", "docVerify", "docFix", "insertText"}
            -> "Step 3: Creating Google Doc"
      [] op \in {"getParents", "moveFile"} -> "Step 4: Moving file to output folder"

C18_StepLabelNamesFailedStep ==
    \A i \in Invocations :
        LET f == h[i] IN
        \A k \in DOMAIN f.results :
            f.results[k].status = "error" =>
                \A n \in DOMAIN f.calls :
                    (/\ f.calls[n].fileId = f.results[k].fileId
                     /\ ~f.calls[n].ok
                     /\ f.calls[n].op \in RaisingOps) =>
                        f.results[k].step = stepOf(f.calls[n].op)

(***************************************************************************)
(* C19. Each file goes through the steps download, transcribe, create      *)
(* document, move source file in that order: a step is attempted only      *)
(* after every earlier step of the file succeeded, after a step raised no  *)
(* further call is made for the file, and a file the loop has left has     *)
(* exactly one entry, "success" when the move succeeded and "error" when a *)
(* step raised.                                                            *)
(***************************************************************************)
\* The number of the step a call (or the await the handler is at) belongs to.
stepNo(op) ==
    CASE op = "download" -> 1
      [] op = "transcribe" -> 2
      [] op \in {"driveCreate", "docsCreate", "docMove", "docVerify", "docFix", "insertText"} -> 3
      [] op \in {"getParents", "moveFile"} -> 4

\* The call whose return ends a step.
lastCallOf(step) ==
    CASE step = 1 -> "download"
      [] step = 2 -> "transcribe"
      [] step = 3 -> "insertText"
      [] step = 4 -> "moveFile"

\* Step step of file fileId succeeded before position n of the log of f.
succeededBefore(f, step, fileId, n) ==
    \E m \in 1..(n - 1) : f.calls[m] = [op |-> lastCallOf(step), fileId |-> fileId, ok |-> TRUE]

\* A step of file fileId raised before position n of the log of f.
raisedBefore(f, fileId, n) ==
    \E m \in 1..(n - 1) :
        /\ f.calls[m].fileId = fileId
        /\ ~f.calls[m].ok
        /\ f.calls[m].op \in RaisingOps

\* How many files the loop of f has left.
filesLeft(f) == IF f.pc \in FilePcs THEN f.idx - 1 ELSE f.idx

C19_StepsInOrder ==
    \A i \in Invocations :
        LET f == h[i] IN
        /\ \A n \in DOMAIN f.calls :
               f.calls[n].fileId # 0 =>
                   /\ \A m \in 1..(n - 1) :
                          f.calls[m].fileId = f.calls[n].fileId =>
                              stepNo(f.calls[m].op) <= stepNo(f.calls[n].op)
                   /\ \A step \in 1..(stepNo(f.calls[n].op) - 1) :
                          succeededBefore(f, step, f.calls[n].fileId, n)
                   /\ ~raisedBefore(f, f.calls[n].fileId, n)
        /\ f.pc \in FilePcs =>
               /\ \A step \in 1..(stepNo(f.pc) - 1) :
                      succeededBefore(f, step, file(f).id, Len(f.calls) + 1)
               /\ ~raisedBefore(f, file(f).id, Len(f.calls) + 1)
        /\ f.pc # "retired" =>
               /\ Len(f.results) = filesLeft(f)
               /\ \A k \in DOMAIN f.results :
                      /\ f.results[k].fileId = f.files[k].id
                      /\ f.results[k].status \in {"success", "error"}
                      /\ f.results[k].status = "success" <=>
                             returned(f, "moveFile", f.files[k].id, TRUE)
                      /\ f.results[k].status = "error" <=> stepRaised(f, k)

\* A run on two files: the first went through all four steps, the second failed
\* in the third after its first two succeeded.
C19_Witness ==
    \E i \in Invocations :
        LET f == h[i] IN
        /\ f.pc = "done"
        /\ Len(f.results) = 2
        /\ f.results[1].status = "success"
        /\ f.results[2].status = "error"
        /\ returned(f, "transcribe", f.files[2].id, TRUE)
        /\ returned(f, "insertText", f.files[2].id, FALSE)

(***************************************************************************)
(* C20. Within one run the files are processed one after the other: a call *)
(* for a file is issued only when every file before it in the list has its *)
(* entry in the results and no file after it has been touched, so at any   *)
(* time at most one file has calls in the log and no entry yet.            *)
(***************************************************************************)
\* The place in the list of f of the file with id fileId.
placeOf(f, fileId) == CHOOSE k \in DOMAIN f.files : f.files[k].id = fileId

\* The files of f that calls were made for and that have no entry yet.
inPipeline(f) ==
    {f.calls[n].fileId : n \in {m \in DOMAIN f.calls : f.calls[m].fileId # 0}}
        \ {f.results[k].fileId : k \in DOMAIN f.results}

\* The step of request i is the return of a call made for a file.
fileCallReturns(i) ==
    /\ h[i].pc \in FilePcs
    /\ Len(h'[i].calls) = Len(h[i].calls) + 1

C20_OneFileAtATime ==
    \A i \in Invocations :
        LET f == h[i] IN
        /\ Cardinality(inPipeline(f)) <= 1
        /\ f.pc \in FilePcs => inPipeline(f) \subseteq {file(f).id}
        /\ \A m, n \in DOMAIN f.calls :
               m < n /\ f.calls[m].fileId # 0 =>
                   placeOf(f, f.calls[m].fileId) <= placeOf(f, f.calls[n].fileId)

C20_CallOnlyForCurrentFile ==
    \A i \in Invocations :
        fileCallReturns(i) =>
            LET call == h'[i].calls[Len(h'[i].calls)] IN
            /\ call.fileId # 0
            /\ placeOf(h[i], call.fileId) = Len(h[i].results) + 1
            /\ Len(h'[i].results) \in {Len(h[i].results), Len(h[i].results) + 1}

C20_Sequential == [](C20_OneFileAtATime) /\ [][C20_CallOnlyForCurrentFile]_vars

\* The second file of a run is in the pipeline after the first one failed and
\* got its entry.
C20_Witness ==
    \E i \in Invocations :
        LET f == h[i] IN
        /\ f.pc = "transcribe"
        /\ f.idx = 2
        /\ Len(f.results) = 1
        /\ f.results[1].status = "error"
        /\ inPipeline(f) = {f.files[2].id}

(***************************************************************************)
(* C21. Once a document exists, a failure of the follow-up move, of the    *)
(* lookup of its parents or of the corrective move does not leave          *)
(* createDoc: the text insertion is still attempted, and when it and the   *)
(* move of the source file succeed the file's entry is "success" with the  *)
(* document's id, wherever the document is.                                *)
(***************************************************************************)
\* The calls of createDoc whose failure is only logged.
SwallowedOps == {"docMove", "docVerify", "docFix"}

\* Position n of the log of f is a failed placement call of createDoc.
placementFailed(f, n) == f.calls[n].op \in SwallowedOps /\ ~f.calls[n].ok

\* After position n of the log of f the insertion for the same file was called.
insertionFollows(f, n) ==
    \E m \in DOMAIN f.calls :
        m > n /\ f.calls[m].op = "insertText" /\ f.calls[m].fileId = f.calls[n].fileId

\* createDoc is still at work on the file of position n of the log of f.
insertionAhead(f, n) ==
    /\ f.pc \in {"docVerify", "docFix", "insertText"}
    /\ file(f).id = f.calls[n].fileId

C21_PlacementFailureSwallowed ==
    \A i \in Invocations :
        LET f == h[i] IN
        /\ \A n \in DOMAIN f.calls :
               placementFailed(f, n) =>
                   /\ f.calls[n].fileId # 0
                   /\ \E d \in DOMAIN docs : docs[d].source = f.calls[n].fileId /\ docs[d].by = i
                   /\ insertionFollows(f, n) \/ insertionAhead(f, n)
        /\ \A k \in DOMAIN f.results :
               (/\ returned(f, "insertText", f.results[k].fileId, TRUE)
                /\ returned(f, "moveFile", f.results[k].fileId, TRUE)) =>
                   /\ f.results[k].status = "success"
                   /\ f.results[k].docId \in DOMAIN docs
                   /\ docs[f.results[k].docId].source = f.results[k].fileId
                   /\ docs[f.results[k].docId].content = transcriptOf(f.results[k].fileId)

\* A file is reported "success" while its document, made by the fallback, is not
\* in the output folder: the follow-up move and the corrective move both failed.
C21_Witness ==
    \E i \in Invocations :
        LET f == h[i] IN
        \E k \in DOMAIN f.results :
            /\ f.results[k].status = "success"
            /\ env.OUTPUT_FOLDER_ID \notin docs[f.results[k].docId].parents
            /\ returned(f, "docMove", f.results[k].fileId, FALSE)
            /\ returned(f, "docFix", f.results[k].fileId, FALSE)

(***************************************************************************)
(* C22. listAudioFiles issues the extension query only when the content-   *)
(* type query returned no file, and returns the files of the input folder  *)
(* that match the content type if there are any, otherwise those that      *)
(* match by extension (as many of them as one page of a listing holds);    *)
(* neither query changes the store or the documents.                       *)
(***************************************************************************)
\* The files of the input folder that a query of listAudioFiles matches.
matching(query) ==
    {id \in DOMAIN drive : env.INPUT_FOLDER_ID \in drive[id].parents /\ matches(query, drive[id])}

\* This step is the return of a query of listAudioFiles to request j.
queryReturns(j) ==
    /\ h[j].pc \in {"listMime", "listExt"}
    /\ h'[j].pc # h[j].pc

\* This step is the return of listAudioFiles to the handler of request j.
listAudioFilesReturns(j) ==
    /\ discoveryReturns(j)
    /\ h'[j].pc # "listExt"

C22_FallbackStep ==
    \A j \in Invocations :
        /\ queryReturns(j) => drive' = drive /\ docs' = docs
        /\ queryReturns(j) /\ h'[j].pc = "listExt" =>
               h[j].pc = "listMime" /\ matching("mimeType") = {}
        /\ listAudioFilesReturns(j) =>
               /\ h[j].pc = "listExt" <=> matching("mimeType") = {}
               /\ LET found == IF matching("mimeType") # {}
                               THEN matching("mimeType")
                               ELSE matching("extension")
                  IN /\ listedIds(h'[j]) \subseteq found
                     /\ Len(h'[j].files) = Cardinality(listedIds(h'[j]))
                     /\ Len(h'[j].files) = IF Cardinality(found) <= PageSize
                                           THEN Cardinality(found) ELSE PageSize
               /\ \A k \in DOMAIN h'[j].files :
                      /\ h'[j].files[k].name = drive[h'[j].files[k].id].name
                      /\ h'[j].files[k].mimeType = drive[h'[j].files[k].id].mimeType

C22_DiscoveryFallback == [][C22_FallbackStep]_vars

\* The fallback found a file: the extension query returned one after the
\* content-type query returned none.
C22_Witness ==
    \E i \in Invocations :
        LET f == h[i] IN
        /\ returned(f, "listMime", 0, TRUE)
        /\ returned(f, "listExt", 0, TRUE)
        /\ Len(f.files) > 0
        /\ \A k \in DOMAIN f.files : ~mimeTypeQuery(f.files[k]) /\ extensionQuery(f.files[k])

(***************************************************************************)
(* C23. In the tagging variant discovery returns exactly the files of the  *)
(* input folder whose appProperties do not hold "true" under the           *)
(* configured key; a successful markFileProcessed sets that value, nothing *)
(* takes it away, so a file marked in one request is in no later           *)
(* discovery, while a file that was not marked is returned again.          *)
(***************************************************************************)
\* The files of the input folder that do not carry the marker.
unmarked ==
    {id \in DOMAIN drive :
        /\ env.INPUT_FOLDER_ID \in drive[id].parents
        /\ [key |-> PROCESS_LABEL_KEY, value |-> "true"] \notin drive[id].appProperties}

\* This step is the return of listUnprocessedMp3s to request j.
listUnprocessedReturns(j) ==
    /\ h[j].pc = "tagList"
    /\ h'[j].pc # "tagList"
    /\ h'[j].res.status # 500

\* This step is the successful return of markFileProcessed to request j.
markReturns(j) ==
    /\ h[j].pc = "tagMark"
    /\ Len(h'[j].results) = Len(h[j].results) + 1

C23_TagStep ==
    /\ \A j \in Invocations :
           /\ listUnprocessedReturns(j) =>
                  /\ listedIds(h'[j]) = unmarked
                  /\ Len(h'[j].files) = Cardinality(unmarked)
                  /\ drive' = drive
           /\ markReturns(j) => file(h[j]).id \notin unmarked'
    /\ \A id \in DOMAIN drive : id \notin unmarked => id \notin unmarked'

C23_MarkedNotListedLater ==
    \A i, j \in Invocations :
        i < j /\ h[i].pc = "retired" => h[i].succeeded \cap listedIds(h[j]) = {}

C23_TagIdempotence == [](C23_MarkedNotListedLater) /\ [][C23_TagStep]_vars

\* The first request marked one file and failed on another after it had made
\* its document; the second request lists that other file and not the marked one.
C23_Witness ==
    /\ h[1].pc = "retired"
    /\ h[1].succeeded # {}
    /\ h[1].res.status = 500
    /\ listedIds(h[2]) # {}
    /\ \A id \in listedIds(h[2]) : \E d \in DOMAIN docs : docs[d].source = id /\ docs[d].by = 1

(***************************************************************************)
(* C24. A failed transcription leaves transcribeAudio as one of three      *)
(* errors: for status 401 or a message about the API key, an API-key error *)
(* that quotes the service's message and tells how to renew the key; for   *)
(* another message that speaks of the file or the format, an error that    *)
(* quotes the file name and the service's message; otherwise the service's *)
(* error as it came.  No text is returned: no document is made for the     *)
(* file and the file's entry is an error.                                  *)
(***************************************************************************)
authenticationFailure(e) == e.status = 401 \/ includes(e.message, "API key")

inputFailure(e) ==
    /\ ~authenticationFailure(e)
    /\ includes(e.message, "file") \/ includes(e.message, "format")

\* s holds t as a contiguous part.
contains(s, t) == \E k \in 1..(Len(s) - Len(t) + 1) : SubSeq(s, k, k + Len(t) - 1) = t

\* entry is what the handler records when transcribeAudio was rejected with e
\* for the file called name.
raisedFor(e, name, entry) ==
    IF authenticationFailure(e)
    THEN /\ Len(entry.error) >= 4
         /\ SubSeq(entry.error, 1, 4) = <<"OpenAI", " ", "API key", " error: ">>
         /\ contains(entry.error, e.message)
         /\ contains(entry.error, <<" To fix this: update the OPENAI_API_KEY variable. Make sure the ">>)
         /\ ~contains(entry.error, name)
    ELSE IF inputFailure(e)
    THEN /\ contains(entry.error, name)
         /\ contains(entry.error, e.message)
         /\ Len(entry.error) > Len(e.message)
         /\ ~includes(entry.error, "OpenAI")
    ELSE /\ entry.error = e.message
         /\ entry.errorCode = e.code

C24_TranscriptionFailureClasses ==
    \A i \in Invocations :
        LET f == h[i] IN
        \A k \in DOMAIN f.results :
            returned(f, "transcribe", f.results[k].fileId, FALSE) =>
                /\ f.results[k].status = "error"
                /\ \E e \in OpenAIErrors : raisedFor(e, f.results[k].fileName, f.results[k])
                /\ \A d \in DOMAIN docs : ~(docs[d].source = f.results[k].fileId /\ docs[d].by = i)
                /\ \A n \in DOMAIN f.calls :
                       f.calls[n].fileId = f.results[k].fileId =>
                           f.calls[n].op \in {"download", "transcribe"}

\* In one run a transcription was rejected for its input and another without a
\* rewritten message.
C24_Witness ==
    \E i \in Invocations :
        LET f == h[i] IN
        /\ Len(f.results) = 2
        /\ \E e \in OpenAIErrors :
               inputFailure(e) /\ raisedFor(e, f.results[1].fileName, f.results[1])
        /\ \E e \in OpenAIErrors :
               /\ ~authenticationFailure(e) /\ ~inputFailure(e)
               /\ raisedFor(e, f.results[2].fileName, f.results[2])
        /\ returned(f, "transcribe", f.results[1].fileId, FALSE)
        /\ returned(f, "transcribe", f.results[2].fileId, FALSE)

(***************************************************************************)
(* C25. The error a failed download leaves downloadFile with tells access  *)
(* denied from not found and holds the id of the file, for a 403 answer    *)
(* and for a 404 answer of the store.                                      *)
(***************************************************************************)
\* The messages with which downloadFile is left for the two answers.
deniedMessage(fileId) ==
    downloadFileCatch(CHOOSE e \in DriveErrors : e.code = 403, fileId).message

notFoundMessage(fileId) ==
    downloadFileCatch(CHOOSE e \in DriveErrors : e.code = 404, fileId).message

C25_DownloadErrorCarriesFileId ==
    \A i \in Invocations :
        LET f == h[i] IN
        \A k \in DOMAIN f.results :
            returned(f, "download", f.results[k].fileId, FALSE) =>
                /\ f.results[k].error \in {deniedMessage(f.results[k].fileId),
                                           notFoundMessage(f.results[k].fileId)}
                /\ deniedMessage(f.results[k].fileId) # notFoundMessage(f.results[k].fileId)
                /\ includes(f.results[k].error, ToString(f.results[k].fileId))

(***************************************************************************)
(* C26. When the store denies the change of parents, the error that        *)
(* leaves moveFileToOutputFolder is a permission error whose message holds *)
(* the id of the file being moved and the id of the output folder.         *)
(***************************************************************************)
\* The move of the file of entry k of f was denied.
moveDenied(f, k) ==
    /\ returned(f, "moveFile", f.results[k].fileId, FALSE)
    /\ f.results[k].error =
           moveFileToOutputFolderCatch(CHOOSE e \in DriveErrors : e.code = 403,
                                       env.OUTPUT_FOLDER_ID).message

C26_MoveDenialNamesFileAndFolder ==
    \A i \in Invocations :
        LET f == h[i] IN
        \A k \in DOMAIN f.results :
            moveDenied(f, k) =>
                /\ includes(f.results[k].error, "Permission")
                /\ includes(f.results[k].error, env.OUTPUT_FOLDER_ID)
                /\ includes(f.results[k].error, ToString(f.results[k].fileId))

(***************************************************************************)
(* C27. The text taken from a response is the first non-empty one of the   *)
(* known shapes, and when there is none the file fails: no document is     *)
(* written with an empty or missing summary or transcript.                 *)
(***************************************************************************)
\* The part of the body of document d that follows the heading: up to the next
\* heading, or to the end.
partAfter(d, heading) ==
    LET body == docs[d].content
        at == CHOOSE k \in DOMAIN body : body[k] = heading
    IN IF at = Len(body) \/ body[at + 1] = "Transcript:" THEN <<>> ELSE <<body[at + 1]>>

C27_NoEmptyTextWritten ==
    \A d \in DOMAIN docs :
        docs[d].content # <<>> =>
            /\ partAfter(d, "Samenvatting:") # <<>>
            /\ partAfter(d, "Transcript:") \notin {<<>>, <<"undefined">>}

(***************************************************************************)
(* C28. In both variants the completion of a source file (its move to the  *)
(* output folder, or the marker set on it) happens only after, in the same *)
(* request, a document was created for the file and the insertion of its   *)
(* text succeeded; and the store of source files changes in no other way.  *)
(***************************************************************************)
\* The calls that create a document, insert its text, and complete the file.
CreationOps == {"driveCreate", "docsCreate", "tagDocsCreate"}
InsertionOps == {"insertText", "tagInsertText"}
CompletionOps == {"moveFile", "tagMark"}

\* Before position n of the log of f, a call of ops succeeded for the file of n.
succeededEarlier(f, ops, n) ==
    \E m \in 1..(n - 1) :
        /\ f.calls[m].op \in ops
        /\ f.calls[m].fileId = f.calls[n].fileId
        /\ f.calls[m].ok

\* Position n of the log of f is a completion that succeeded.
completed(f, n) == f.calls[n].op \in CompletionOps /\ f.calls[n].ok

C28_CompletionAfterDocument ==
    \A i \in Invocations :
        LET f == h[i] IN
        \A n \in DOMAIN f.calls :
            completed(f, n) =>
                /\ succeededEarlier(f, CreationOps, n)
                /\ succeededEarlier(f, InsertionOps, n)
                /\ \E d \in DOMAIN docs :
                       /\ docs[d].source = f.calls[n].fileId
                       /\ docs[d].by = i
                       /\ docs[d].content # <<>>

\* A step changes a source file only as the completion of that file by the
\* request taking the step.
C28_StoreStep ==
    drive' # drive =>
        \E i \in Invocations :
            /\ Len(h'[i].calls) = Len(h[i].calls) + 1
            /\ completed(h'[i], Len(h'[i].calls))
            /\ \A id \in DOMAIN drive :
                   drive'[id] # drive[id] => id = h'[i].calls[Len(h'[i].calls)].fileId

C28_NoPrematureCompletion == [](C28_CompletionAfterDocument) /\ [][C28_StoreStep]_vars

\* A file was tagged as processed by a request that made and filled its document.
C28_Witness ==
    \E i \in Invocations :
        \E n \in DOMAIN h[i].calls :
            /\ h[i].calls[n] = [op |-> "tagMark", fileId |-> h[i].calls[n].fileId, ok |-> TRUE]
            /\ isProcessed(drive[h[i].calls[n].fileId])
            /\ succeededEarlier(h[i], InsertionOps, n)

(***************************************************************************)
(* C29. When a file fails at the download or at the transcription, the     *)
(* step that records the failure changes neither the store nor the         *)
(* documents: the run has made no document for the file, the file keeps    *)
(* its parents and its properties, and the file's pass leaves only its     *)
(* error entry.                                                            *)
(***************************************************************************)
\* This step of request i records a failure of the download or transcription.
earlyFailure(i) ==
    /\ h[i].pc \in {"download", "transcribe"}
    /\ Len(h'[i].results) = Len(h[i].results) + 1

\* Entry k of f is of a file that failed at the download or the transcription.
failedEarly(f, k) ==
    \/ returned(f, "download", f.results[k].fileId, FALSE)
    \/ returned(f, "transcribe", f.results[k].fileId, FALSE)

C29_EarlyFailureStep ==
    \A i \in Invocations :
        earlyFailure(i) =>
            /\ drive' = drive
            /\ docs' = docs
            /\ cachedAuth' = cachedAuth
            /\ SubSeq(h'[i].results, 1, Len(h[i].results)) = h[i].results
            /\ h'[i].results[Len(h'[i].results)].status = "error"
            /\ h'[i].results[Len(h'[i].results)].fileId = file(h[i]).id

C29_EarlyFailureLeavesNothing ==
    \A i \in Invocations :
        LET f == h[i] IN
        \A k \in DOMAIN f.results :
            failedEarly(f, k) =>
                /\ f.results[k].status = "error"
                /\ \A d \in DOMAIN docs : ~(docs[d].source = f.results[k].fileId /\ docs[d].by = i)
                /\ drive[f.results[k].fileId].parents = {env.INPUT_FOLDER_ID}
                /\ drive[f.results[k].fileId].appProperties = {}
                /\ \A n \in DOMAIN f.calls :
                       f.calls[n].fileId = f.results[k].fileId =>
                           f.calls[n].op \in {"download", "transcribe"}

C29_StateUnchangedOnEarlyFailure ==
    [](C29_EarlyFailureLeavesNothing) /\ [][C29_EarlyFailureStep]_vars

\* Of two files one failed at the download and is where it was, the other went
\* through and was moved.
C29_Witness ==
    \E i \in Invocations :
        LET f == h[i] IN
        /\ f.pc = "done"
        /\ Len(f.results) = 2
        /\ returned(f, "download", f.results[1].fileId, FALSE)
        /\ f.results[2].status = "success"
        /\ drive[f.results[1].fileId].parents = {env.INPUT_FOLDER_ID}
        /\ drive[f.results[2].fileId].parents = {env.OUTPUT_FOLDER_ID}
        /\ Len(docs) = 1

(***************************************************************************)
(* C30. A request to the primary handler, once it arrived, is answered,    *)
(* given that every awaited call returns: exactly one response, with       *)
(* status 200, 405 or 500, which is never replaced; no call is made twice  *)
(* for the same file, and every file of the list is visited once.          *)
(***************************************************************************)
C30_CallsOnce ==
    \A i \in Invocations :
        LET f == h[i] IN
        /\ f.res.status \in {0, 200, 405, 500}
        /\ f.res.status # 0 <=> f.pc \in {"done", "retired"}
        /\ \A m, n \in DOMAIN f.calls :
               f.calls[m].op = f.calls[n].op /\ f.calls[m].fileId = f.calls[n].fileId => m = n
        /\ \A a, b \in DOMAIN f.files : f.files[a].id = f.files[b].id => a = b
        /\ f.idx <= Len(f.files)
        /\ Len(f.results) <= f.idx

C30_RespondsOnce ==
    \A i \in Invocations :
        /\ h[i].res.status # 0 => h'[i].res = h[i].res /\ h'[i].calls = h[i].calls
        /\ h'[i].idx \in {h[i].idx, h[i].idx + 1} \/ h[i].pc = "listMime" \/ h[i].pc = "listExt"

C30_Answered == (h[1].pc # "idle") ~> (h[1].pc = "done" /\ h[1].res.status \in {200, 405, 500})

C30_Terminates == [](C30_CallsOnce) /\ [][C30_RespondsOnce]_vars /\ C30_Answered

\* A request was answered with the report after two of its calls had failed.
C30_Witness ==
    /\ h[1].pc = "done"
    /\ h[1].res.status = 200
    /\ Len(h[1].results) = 2
    /\ Cardinality(failedCalls(h[1])) = 2

(***************************************************************************)
(* C31. The two older variants of the handler (api/process-drive.js and    *)
(* the tagging one) do not set a failing file aside: the first call that   *)
(* fails for a file is the last call of the request, the answer is 500     *)
(* and carries no list of results, and the failing step leaves the store   *)
(* as it was, so that the documents written and the marks set for the      *)
(* files handled before it are still there.                                *)
(***************************************************************************)
\* The awaits of the two older variants.
OlderOps == TagPcs \cup LegacyPcs

\* Call n of f is one of an older variant that failed for a file.
failedForFile(f, n) ==
    /\ f.calls[n].op \in OlderOps
    /\ f.calls[n].fileId # 0
    /\ ~f.calls[n].ok

\* The document a results entry of an older variant names.
documentOf(entry) ==
    IF "docId" \in DOMAIN entry THEN entry.docId ELSE entry.documentId

\* This step of request i is a call of an older variant that fails.
olderFailure(i) ==
    /\ h[i].pc \in OlderOps
    /\ Len(h'[i].calls) = Len(h[i].calls) + 1
    /\ ~h'[i].calls[Len(h'[i].calls)].ok

C31_FailureAborts ==
    \A i \in Invocations :
        LET f == h[i] IN
        \A n \in DOMAIN f.calls :
            failedForFile(f, n) =>
                /\ n = Len(f.calls)
                /\ f.pc = "done"
                /\ f.res.status = 500
                /\ DOMAIN f.res.body \cap {"results", "processed"} = {}
                /\ "error" \in DOMAIN f.res.body

C31_HandledFilesKept ==
    \A i \in Invocations :
        LET f == h[i] IN
        (f.pc \in OlderOps \/ (f.pc = "done" /\ \E n \in DOMAIN f.calls : f.calls[n].op \in OlderOps)) =>
            \A k \in DOMAIN f.results :
                LET d == documentOf(f.results[k]) IN
                /\ d \in DOMAIN docs
                /\ docs[d].source = f.files[k].id
                /\ docs[d].content # <<>>
                /\ "documentId" \in DOMAIN f.results[k] =>
                       /\ isProcessed(drive[f.files[k].id])
                       /\ docs[d].parents = {env.OUTPUT_FOLDER_ID}

C31_FailureStep ==
    \A i \in Invocations :
        olderFailure(i) =>
            /\ docs' = docs
            /\ drive' = drive
            /\ h'[i].results = h[i].results
            /\ h'[i].pc = "done"
            /\ h'[i].res.status = 500

C31_NoIsolation ==
    [](C31_FailureAborts) /\ [](C31_HandledFilesKept) /\ [][C31_FailureStep]_vars

\* The tagging variant handled one file and failed at the second: 500, and
\* the first file's document and mark are in the store.
C31_Witness ==
    \E i \in Invocations :
        LET f == h[i] IN
        /\ f.pc = "done"
        /\ f.res.status = 500
        /\ Len(f.results) = 1
        /\ f.idx = 2
        /\ failedForFile(f, Len(f.calls))
        /\ f.calls[Len(f.calls)].op \in TagPcs
        /\ isProcessed(drive[f.files[1].id])
        /\ ~isProcessed(drive[f.files[2].id])
        /\ docs[f.results[1].documentId].content # <<>>

(***************************************************************************)
(* C32. When createDoc was given a target folder and returned a document   *)
(* id, and every call it made to place the document (the follow-up move,   *)
(* the lookup of the parents, the corrective move) succeeded, the          *)
(* document's parents are the target folder and nothing else, whether the  *)
(* document was created in the folder or in the default location.          *)
(***************************************************************************)
\* The calls of createDoc that place the document.
PlacementOps == {"docMove", "docVerify", "docFix"}

\* createDoc of request i returned document d, and none of its placement
\* calls failed.
placedWithoutFailure(i, d) ==
    LET f == h[i] IN
    /\ docs[d].by = i
    /\ returned(f, "insertText", docs[d].source, TRUE)
    /\ \A n \in DOMAIN f.calls :
           (f.calls[n].fileId = docs[d].source /\ f.calls[n].op \in PlacementOps) => f.calls[n].ok

C32_ParentsExactlyTargetFolder ==
    \A i \in Invocations : \A d \in DOMAIN docs :
        (h[i].pc # "retired" /\ env.OUTPUT_FOLDER_ID # "" /\ placedWithoutFailure(i, d)) =>
            docs[d].parents = {env.OUTPUT_FOLDER_ID}

(***************************************************************************)
(* C33. A getAuth that throws leaves cachedAuth empty, whichever of its    *)
(* checks or the construction of the client failed, so the next call goes  *)
(* through the checks again; cachedAuth is set only by a call that         *)
(* returned, and then holds a handle built from a configuration that       *)
(* passed every check.                                                     *)
(***************************************************************************)
\* The handle is the one the constructor returns for an account with an email
\* and a key with both markers and real newlines.
validHandle(handle) ==
    /\ handle.set
    /\ handle.email # ""
    /\ includes(handle.key, "BEGIN") /\ includes(handle.key, "END")
    /\ ~includes(handle.key, "\\n")
    /\ JWT(handle.email, handle.key) = [ok |-> TRUE, handle |-> handle, error |-> NoError]

\* Request i was answered with the error getAuth throws for the configuration.
answeredGetAuthError(f) ==
    /\ f.pc = "done"
    /\ f.res.status = 500
    /\ ~getAuth(NoAuth, env.GOOGLE_SERVICE_ACCOUNT_JSON).ok
    /\ f.res.body.error = getAuth(NoAuth, env.GOOGLE_SERVICE_ACCOUNT_JSON).error.message

C33_ThrowLeavesNoHandle ==
    /\ \A sa \in ServiceAccounts :
           LET first == getAuth(NoAuth, sa) IN
           /\ first.ok => validHandle(first.cached)
           /\ ~first.ok =>
                  /\ first.cached = NoAuth
                  /\ \A later \in ServiceAccounts :
                         getAuth(first.cached, later) = getAuth(NoAuth, later)
    /\ cachedAuth.set => validHandle(cachedAuth)
    /\ (\E i \in Invocations : answeredGetAuthError(h[i])) => cachedAuth = NoAuth

\* cachedAuth changes only from empty to a valid handle, in the step in which a
\* request gets its client.
C33_HandleOnlyOnReturn ==
    cachedAuth' # cachedAuth =>
        /\ cachedAuth = NoAuth
        /\ validHandle(cachedAuth')
        /\ \E i \in Invocations : h[i].pc = "idle" /\ h'[i].pc = "folderInfo"

C33_FailureNeverCached ==
    [](C33_ThrowLeavesNoHandle) /\ [][C33_HandleOnlyOnReturn]_vars

\* Two requests in a row were refused at the construction of the client, the
\* second like the first, and no handle is left.
C33_Witness ==
    /\ env.GOOGLE_SERVICE_ACCOUNT_JSON.private_key = UndecodableKey
    /\ cachedAuth = NoAuth
    /\ \E i, j \in Invocations :
          /\ i < j
          /\ h[i].pc = "retired" /\ h[i].res.status = 500
          /\ answeredGetAuthError(h[j])
          /\ includes(h[j].res.body.error, "DECODER")

====
